---------------------------- MODULE Spec2Model ----------------------------
(***************************************************************************)
(* A model of the PCP-over-SDN controller (unifycore/pcp-sdn):             *)
(*   - the NAT table and its round-robin allocator (pcp_sdn/nat/nattable), *)
(*   - the NAT handler and flow installer (nathandler, natinstaller),      *)
(*   - the PCP server logic (pcp/pcpserver),                               *)
(*   - the flow-removed handler of the controller (sdn_controller),        *)
(*   - the forwarder the controller programs (an OpenFlow 1.3 switch).     *)
(*                                                                         *)
(* Python strings are sequences of character codes, so that string         *)
(* concatenation (NatTable._get_key) and string comparison (the pool range *)
(* check of add_entry) are computed as the code computes them.             *)
(***************************************************************************)
EXTENDS Integers, Sequences, FiniteSets, TLC

(***************************************************************************)
(* Bounds of the model.                                                    *)
(***************************************************************************)
\* number of external IP addresses in the pool
IpPoolSize == 1
\* number of external ports per external IP address
PortPoolSize == 2
\* largest lifetime (seconds) a request or a direct call carries
MaxLifetime == 2
\* how many addresses past external_ip_high_end the allocator cursor may go
MaxIpOverrun == 1
\* how far past external_port_high_end + 1 a per-IP port counter may go
MaxPortOverrun == 1
\* most messages sent by the controller and not yet applied by the forwarder
MaxChan == 5
\* most flow-removed events emitted by the forwarder and not yet handled
MaxEvents == 1
\* most PCP requests the controller handles in a run
MaxRequests == 3
\* the seconds between the making of the server and a response
MaxEpochTime == 1
\* most PCP requests the controller handles in a run of the specifications
\* that follow the forwarder through every interleaving
MaxTimedRequests == 2
\* most PCP requests the controller handles in a run that keeps the order of
\* the requests: a create, two refreshes and a removal
MaxOrderedRequests == 4
\* most messages in the channel in such a run: the batches of two refreshes,
\* each of four flow-mods and a response
MaxOrderedChan == 10

(***************************************************************************)
(* Python strings.                                                         *)
(***************************************************************************)
CharDot == 46
CharZero == 48
CharColon == 58

\* str.encode('hex')
HexDigit(n) == IF n < 10 THEN CharZero + n ELSE 87 + n

Hex(bytes) ==
    [i \in 1 .. 2 * Len(bytes) |->
        IF i % 2 = 1 THEN HexDigit(bytes[(i + 1) \div 2] \div 16)
        ELSE HexDigit(bytes[i \div 2] % 16)]

\* str(None)
NoneStr == <<78, 111, 110, 101>>

\* None, for a value that is otherwise a string (None and "" are both falsy)
NoneIp == <<>>
\* None, for a value that is otherwise a port number
NonePort == -1

RECURSIVE Digits(_)
\* str(n) of a non-negative integer
Digits(n) == IF n < 10 THEN <<CharZero + n>>
             ELSE Digits(n \div 10) \o <<CharZero + (n % 10)>>

RECURSIVE StrLessFrom(_, _, _)
StrLessFrom(a, b, i) ==
    IF i > Len(b) THEN FALSE
    ELSE IF i > Len(a) THEN TRUE
    ELSE IF a[i] < b[i] THEN TRUE
    ELSE IF a[i] > b[i] THEN FALSE
    ELSE StrLessFrom(a, b, i + 1)

\* a < b on Python 2 byte strings
StrLess(a, b) == StrLessFrom(a, b, 1)

(***************************************************************************)
(* netaddr.IPAddress: an IPv4 address is its four octets.                  *)
(***************************************************************************)
RECURSIVE ParseIpFrom(_, _, _, _)
ParseIpFrom(s, i, words, cur) ==
    IF i > Len(s) THEN Append(words, cur)
    ELSE IF s[i] = CharDot THEN ParseIpFrom(s, i + 1, Append(words, cur), 0)
    ELSE ParseIpFrom(s, i + 1, words, cur * 10 + (s[i] - CharZero))

\* netaddr.IPAddress(s) of a dotted quad
ParseIp(s) == ParseIpFrom(s, 1, <<>>, 0)

\* str(netaddr.IPAddress)
IpStr(w) == Digits(w[1]) \o <<CharDot>> \o Digits(w[2]) \o <<CharDot>>
            \o Digits(w[3]) \o <<CharDot>> \o Digits(w[4])

\* netaddr.IPAddress + 1
IncWords(w) ==
    IF w[4] < 255 THEN <<w[1], w[2], w[3], w[4] + 1>>
    ELSE IF w[3] < 255 THEN <<w[1], w[2], w[3] + 1, 0>>
    ELSE IF w[2] < 255 THEN <<w[1], w[2] + 1, 0, 0>>
    ELSE <<w[1] + 1, 0, 0, 0>>

RECURSIVE AddWords(_, _)
AddWords(w, k) == IF k = 0 THEN w ELSE AddWords(IncWords(w), k - 1)

\* numeric order of two addresses
WordsLeq(a, b) ==
    \/ a[1] < b[1]
    \/ a[1] = b[1] /\ a[2] < b[2]
    \/ a[1] = b[1] /\ a[2] = b[2] /\ a[3] < b[3]
    \/ a[1] = b[1] /\ a[2] = b[2] /\ a[3] = b[3] /\ a[4] <= b[4]

(***************************************************************************)
(* Constants of nattable.py and the NAT pool configuration.                *)
(***************************************************************************)
IPv4 == 2048
TCP == 6
UDP == 17
\* a protocol number that is neither TCP nor UDP (ICMP)
OtherProtocol == 1

\* external_ip_low_end = "200.0.0.2"
external_ip_low_words == <<200, 0, 0, 2>>
external_ip_low_end == IpStr(external_ip_low_words)
external_ip_high_words == AddWords(external_ip_low_words, IpPoolSize - 1)
external_ip_high_end == IpStr(external_ip_high_words)
external_port_low_end == 49152
external_port_high_end == external_port_low_end + PortPoolSize - 1


(***************************************************************************)
(* NatTable (nattable.py).  A table is the record                          *)
(*   [table, table_external, allocated, last]                              *)
(* of the object's four fields: _table, _table_external,                   *)
(* _allocated_external_ips_and_ports and _last_external_ip.  The two       *)
(* dictionaries are functions from keys (strings) to entries.              *)
(***************************************************************************)
\* the value None where an entry is expected
NoneEntry == [none |-> TRUE]

NatTableEntry(address_family, protocol, internal_ip, internal_port, external_ip, external_port, lifetime) ==
    [address_family |-> address_family, protocol |-> protocol,
     internal_ip |-> internal_ip, internal_port |-> internal_port,
     external_ip |-> external_ip, external_port |-> external_port,
     lifetime |-> lifetime]

\* str(x) of an IP address string or None
StrOfIp(ip) == IF ip = NoneIp THEN NoneStr ELSE ip
\* str(x) of a port number or None
StrOfPort(port) == IF port = NonePort THEN NoneStr ELSE Digits(port)

_get_key(ip, port) == StrOfIp(ip) \o StrOfPort(port)

\* dictionary operations
DictSet(d, k, v) == [x \in DOMAIN d \cup {k} |-> IF x = k THEN v ELSE d[x]]
DictDel(d, k) == [x \in DOMAIN d \ {k} |-> d[x]]
EmptyDict == [x \in {} |-> 0]

find_entry(nt, internal_ip, internal_port) ==
    LET key == _get_key(internal_ip, internal_port)
    IN  IF key \in DOMAIN nt.table THEN nt.table[key] ELSE NoneEntry

find_entry_by_external(nt, external_ip, external_port) ==
    LET key == _get_key(external_ip, external_port)
    IN  IF key \in DOMAIN nt.table_external THEN nt.table_external[key]
        ELSE NoneEntry

_get_incremented_ip(ip) == IpStr(IncWords(ParseIp(ip)))

\* _is_port_pool_depleted that takes the last port of the pool for depleted
_is_port_pool_depleted_early(allocated, external_ip) ==
    allocated[external_ip] >= external_port_high_end

_is_port_pool_depleted(allocated, external_ip) ==
    allocated[external_ip] > external_port_high_end

\* _allocate_ip_and_port that hands out the first port of the address
\* again instead of the port after the last allocated one
_allocate_ip_and_port_restarting(nt, external_ip) ==
    LET ip == IF external_ip = NoneIp THEN nt.last ELSE external_ip
    IN  [allocated |-> DictSet(nt.allocated, ip, external_port_low_end),
         last |-> nt.last, ip |-> ip, port |-> external_port_low_end]

\* returns the allocator state and the allocated (ip, port)
_allocate_ip_and_port(nt, external_ip) ==
    LET ip == IF external_ip = NoneIp THEN nt.last ELSE external_ip
    IN  IF ip \notin DOMAIN nt.allocated
        THEN [allocated |-> DictSet(nt.allocated, ip, external_port_low_end),
              last |-> nt.last, ip |-> ip, port |-> external_port_low_end]
        ELSE LET inc == DictSet(nt.allocated, ip, nt.allocated[ip] + 1)
             IN  IF _is_port_pool_depleted(inc, ip)
                 THEN LET next_ip == _get_incremented_ip(ip)
                      IN  [allocated |-> DictSet(inc, next_ip, external_port_low_end),
                           last |-> next_ip, ip |-> next_ip,
                           port |-> external_port_low_end]
                 ELSE [allocated |-> inc, last |-> nt.last, ip |-> ip,
                       port |-> inc[ip]]

_allocate_ip(nt) == nt.last

_allocate_entry(nt, external_ip, external_port) ==
    IF external_ip = NoneIp /\ external_port = NonePort
    THEN _allocate_ip_and_port(nt, NoneIp)
    ELSE IF external_ip # NoneIp /\ external_port = NonePort
    THEN _allocate_ip_and_port(nt, external_ip)
    ELSE IF external_ip = NoneIp /\ external_port # NonePort
    THEN [allocated |-> nt.allocated, last |-> nt.last,
          ip |-> _allocate_ip(nt), port |-> external_port]
    ELSE [allocated |-> nt.allocated, last |-> nt.last,
          ip |-> external_ip, port |-> external_port]

\* lines 114-126 of add_entry with the pool low_end .. high_end: the
\* suggested external IP, or None
SuggestedIpIn(external_ip, low_end, high_end) ==
    IF external_ip = NoneIp THEN NoneIp
    ELSE LET nonzero == IF ParseIp(external_ip) = <<0, 0, 0, 0>> THEN NoneIp
                        ELSE external_ip
         IN  \* None compares less than every string
             IF \/ nonzero = NoneIp
                \/ StrLess(nonzero, low_end)
                \/ StrLess(high_end, nonzero)
             THEN NoneIp ELSE nonzero

\* lines 114-126 of add_entry: the suggested external IP, or None
SuggestedIp(external_ip) ==
    SuggestedIpIn(external_ip, external_ip_low_end, external_ip_high_end)

\* lines 128-134 of add_entry: the suggested external port, or None
SuggestedPort(external_port) ==
    IF external_port = NonePort \/ external_port = 0 THEN NonePort
    ELSE IF \/ external_port < external_port_low_end
            \/ external_port > external_port_high_end
    THEN NonePort ELSE external_port

\* _add_entry without the test of the key
_add_entry_overwriting(nt, nat_table_entry) ==
    [table |-> DictSet(nt.table,
                       _get_key(nat_table_entry.internal_ip,
                                nat_table_entry.internal_port),
                       nat_table_entry),
     table_external |-> DictSet(nt.table_external,
                                _get_key(nat_table_entry.external_ip,
                                         nat_table_entry.external_port),
                                nat_table_entry),
     exc |-> "none"]

\* the table after _add_entry, or the exception it raises
_add_entry(nt, nat_table_entry) ==
    LET key == _get_key(nat_table_entry.internal_ip, nat_table_entry.internal_port)
        key_external == _get_key(nat_table_entry.external_ip,
                                 nat_table_entry.external_port)
    IN  IF key \notin DOMAIN nt.table
        THEN [table |-> DictSet(nt.table, key, nat_table_entry),
              table_external |-> DictSet(nt.table_external, key_external,
                                         nat_table_entry),
              exc |-> "none"]
        ELSE [table |-> nt.table, table_external |-> nt.table_external,
              exc |-> "ValueError"]

\* lines 136-147 of add_entry, once the suggestion is ip1 and port1
add_entry_suggested(nt, internal_ip, internal_port, lifetime, ip1, port1, protocol) ==
    LET in_use == find_entry_by_external(nt, ip1, port1) # NoneEntry
        ip2 == IF in_use THEN NoneIp ELSE ip1
        port2 == IF in_use THEN NonePort ELSE port1
        a == _allocate_entry(nt, ip2, port2)
        nat_table_entry == NatTableEntry(IPv4, protocol, internal_ip,
                             internal_port, a.ip, a.port, lifetime)
        added == _add_entry(nt, nat_table_entry)
    IN  [table |-> added.table, table_external |-> added.table_external,
         allocated |-> a.allocated, last |-> a.last,
         ret |-> IF added.exc = "none" THEN nat_table_entry ELSE NoneEntry,
         exc |-> added.exc]

\* the table after add_entry, the entry returned and the exception raised
add_entry(nt, internal_ip, internal_port, lifetime, external_ip, external_port, protocol) ==
    add_entry_suggested(nt, internal_ip, internal_port, lifetime,
                        SuggestedIp(external_ip), SuggestedPort(external_port),
                        protocol)

\* external_ip_high_end = "200.0.255.254" of the configuration
configured_ip_high_words == <<200, 0, 255, 254>>
configured_ip_high_end == IpStr(configured_ip_high_words)

\* add_entry of a NatTable whose pool of addresses is the configured one
add_entry_configured(nt, internal_ip, internal_port, lifetime, external_ip, external_port, protocol) ==
    add_entry_suggested(nt, internal_ip, internal_port, lifetime,
                        SuggestedIpIn(external_ip, external_ip_low_end,
                                      configured_ip_high_end),
                        SuggestedPort(external_port), protocol)

update_entry_lifetime(nt, internal_ip, internal_port, lifetime) ==
    LET key == _get_key(internal_ip, internal_port)
    IN  IF key \notin DOMAIN nt.table
        THEN [table |-> nt.table, table_external |-> nt.table_external,
              allocated |-> nt.allocated, last |-> nt.last,
              ret |-> NoneEntry, exc |-> "KeyError"]
        ELSE LET entry == nt.table[key]
                 new_entry == [entry EXCEPT !.lifetime = lifetime]
             IN  [table |-> DictSet(nt.table, key, new_entry),
                  table_external |->
                      DictSet(nt.table_external,
                              _get_key(entry.external_ip, entry.external_port),
                              new_entry),
                  allocated |-> nt.allocated, last |-> nt.last,
                  ret |-> new_entry, exc |-> "none"]

remove_entry(nt, internal_ip, internal_port) ==
    LET entry == find_entry(nt, internal_ip, internal_port)
        key == _get_key(internal_ip, internal_port)
    IN  IF entry = NoneEntry
        THEN [table |-> nt.table, table_external |-> nt.table_external,
              allocated |-> nt.allocated, last |-> nt.last,
              ret |-> NoneEntry, exc |-> "none"]
        ELSE LET key_external == _get_key(entry.external_ip, entry.external_port)
             IN  \* the first del is done when the second raises
                 [table |-> DictDel(nt.table, key),
                  table_external |-> DictDel(nt.table_external, key_external),
                  allocated |-> nt.allocated, last |-> nt.last,
                  ret |-> NoneEntry,
                  exc |-> IF key_external \in DOMAIN nt.table_external
                          THEN "none" ELSE "KeyError"]

remove_entry_by_external(nt, external_ip, external_port) ==
    LET entry == find_entry_by_external(nt, external_ip, external_port)
    IN  IF entry = NoneEntry
        THEN [table |-> nt.table, table_external |-> nt.table_external,
              allocated |-> nt.allocated, last |-> nt.last,
              ret |-> NoneEntry, exc |-> "none"]
        ELSE LET key == _get_key(entry.internal_ip, entry.internal_port)
             IN  IF key \in DOMAIN nt.table
                 THEN [table |-> DictDel(nt.table, key),
                       table_external |->
                           DictDel(nt.table_external,
                                   _get_key(external_ip, external_port)),
                       allocated |-> nt.allocated, last |-> nt.last,
                       ret |-> NoneEntry, exc |-> "none"]
                 ELSE \* the first del raises: nothing is deleted
                      [table |-> nt.table, table_external |-> nt.table_external,
                       allocated |-> nt.allocated, last |-> nt.last,
                       ret |-> NoneEntry, exc |-> "KeyError"]


(***************************************************************************)
(* Constants of the controller, the PCP codec and the configuration.       *)
(***************************************************************************)
IPv6 == 34525
\* PcpSdnApp._PORTS['access']
AccessPort == 1
\* IDs FlowTableHelper assigns to PcpSdnApp._FLOW_TABLES, in list order
nat_internal_to_external == 2
nat_external_to_internal == 3
packet_forwarding == 4
default_nat_flow_entry_priority == 1
default_pcp_map_assigned_lifetime_seconds == 0
default_pcp_peer_assigned_lifetime_seconds == 0
\* PcpMessageOpcodes
ANNOUNCE == 0
MAP == 1
PEER == 2
\* PcpMessageTypes
REQUEST == 0
RESPONSE == 1
\* PcpResultCodes
SUCCESS == 0
UNSUPP_VERSION == 1
MALFORMED_REQUEST == 3
UNSUPP_OPCODE == 4
\* MappingRemovalType
FLOW_ENTRY_REMOVED_BY_FORWARDER == 0
REQUESTED_BY_CLIENT == 1
\* NatInstaller._TRANSLATION_DIRECTIONS
INTERNAL_TO_EXTERNAL == 0
EXTERNAL_TO_INTERNAL == 1

(***************************************************************************)
(* NatInstaller (natinstaller.py).  An operation yields the messages it    *)
(* sends to the forwarder, in order, and the exception it raises.          *)
(***************************************************************************)
MATCH_FIELD_NAME_MAPS ==
    [ip_src |-> (IPv4 :> "ipv4_src" @@ IPv6 :> "ipv6_src"),
     ip_dst |-> (IPv4 :> "ipv4_dst" @@ IPv6 :> "ipv6_dst"),
     port_src |-> (TCP :> "tcp_src" @@ UDP :> "udp_src"),
     port_dst |-> (TCP :> "tcp_dst" @@ UDP :> "udp_dst")]

\* the dictionary lookups of _get_match_data and _get_action_set_data succeed
FieldNamesDefined(nat_table_entry) ==
    /\ nat_table_entry.address_family \in DOMAIN MATCH_FIELD_NAME_MAPS.ip_src
    /\ nat_table_entry.protocol \in DOMAIN MATCH_FIELD_NAME_MAPS.port_src

_get_match_data(nat_table_entry, translation_direction) ==
    LET internal == translation_direction = INTERNAL_TO_EXTERNAL
        ip_field_name ==
            IF internal
            THEN MATCH_FIELD_NAME_MAPS.ip_src[nat_table_entry.address_family]
            ELSE MATCH_FIELD_NAME_MAPS.ip_dst[nat_table_entry.address_family]
        port_field_name ==
            IF internal
            THEN MATCH_FIELD_NAME_MAPS.port_src[nat_table_entry.protocol]
            ELSE MATCH_FIELD_NAME_MAPS.port_dst[nat_table_entry.protocol]
    IN  ("eth_type" :> nat_table_entry.address_family)
        @@ ("ip_proto" :> nat_table_entry.protocol)
        @@ (ip_field_name :> IF internal THEN nat_table_entry.internal_ip
                             ELSE nat_table_entry.external_ip)
        @@ (port_field_name :> IF internal THEN nat_table_entry.internal_port
                               ELSE nat_table_entry.external_port)

_get_action_set_data(nat_table_entry, translation_direction) ==
    LET internal == translation_direction = INTERNAL_TO_EXTERNAL
        ip_field_name ==
            IF internal
            THEN MATCH_FIELD_NAME_MAPS.ip_src[nat_table_entry.address_family]
            ELSE MATCH_FIELD_NAME_MAPS.ip_dst[nat_table_entry.address_family]
        port_field_name ==
            IF internal
            THEN MATCH_FIELD_NAME_MAPS.port_src[nat_table_entry.protocol]
            ELSE MATCH_FIELD_NAME_MAPS.port_dst[nat_table_entry.protocol]
    IN  (ip_field_name :> IF internal THEN nat_table_entry.external_ip
                          ELSE nat_table_entry.internal_ip)
        @@ (port_field_name :> IF internal THEN nat_table_entry.external_port
                               ELSE nat_table_entry.internal_port)

\* the OFPFlowMod of dphelper.add_flow_entry, as _install_nat_table_entry
\* calls it
_install_nat_table_entry(table_id, match_data, action_set_field_data, lifetime, priority) ==
    [type |-> "flow_mod", command |-> "ADD", table_id |-> table_id,
     match |-> match_data, set_field |-> action_set_field_data,
     goto_table |-> packet_forwarding, idle_timeout |-> lifetime,
     priority |-> priority, flags |-> "SEND_FLOW_REM"]

\* the OFPFlowMod of dphelper.remove_flow_entry
_uninstall_nat_table_entry(table_id, match_data, priority) ==
    [type |-> "flow_mod", command |-> "DELETE", table_id |-> table_id,
     match |-> match_data, priority |-> priority]

_install_nat_entry(table_id, nat_table_entry, translation_direction, priority) ==
    _install_nat_table_entry(table_id,
        _get_match_data(nat_table_entry, translation_direction),
        _get_action_set_data(nat_table_entry, translation_direction),
        nat_table_entry.lifetime, priority)

_uninstall_nat_entry(table_id, nat_table_entry, translation_direction, priority) ==
    _uninstall_nat_table_entry(table_id,
        _get_match_data(nat_table_entry, translation_direction), priority)

install_nat_entry(nat_table_entry) ==
    IF ~FieldNamesDefined(nat_table_entry)
    THEN [msgs |-> <<>>, exc |-> "KeyError"]
    ELSE [msgs |-> << _install_nat_entry(nat_internal_to_external,
                          nat_table_entry, INTERNAL_TO_EXTERNAL,
                          default_nat_flow_entry_priority),
                      _install_nat_entry(nat_external_to_internal,
                          nat_table_entry, EXTERNAL_TO_INTERNAL,
                          default_nat_flow_entry_priority) >>,
          exc |-> "none"]

uninstall_nat_entry(nat_table_entry) ==
    IF ~FieldNamesDefined(nat_table_entry)
    THEN [msgs |-> <<>>, exc |-> "KeyError"]
    ELSE [msgs |-> << _uninstall_nat_entry(nat_internal_to_external,
                          nat_table_entry, INTERNAL_TO_EXTERNAL,
                          default_nat_flow_entry_priority),
                      _uninstall_nat_entry(nat_external_to_internal,
                          nat_table_entry, EXTERNAL_TO_INTERNAL,
                          default_nat_flow_entry_priority) >>,
          exc |-> "none"]

modify_nat_entry_lifetime(nat_table_entry) ==
    LET un == uninstall_nat_entry(nat_table_entry)
        ins == install_nat_entry(nat_table_entry)
    IN  IF un.exc # "none" THEN un
        ELSE [msgs |-> un.msgs \o ins.msgs, exc |-> ins.exc]

(***************************************************************************)
(* NatHandler (nathandler.py).  An operation yields the NatTable after it, *)
(* the messages sent, the mapping returned and the exception raised.       *)
(***************************************************************************)
\* the outcome of an operation that leaves the table as it is
Outcome(nt, msgs, mapping, exc) ==
    [table |-> nt.table, table_external |-> nt.table_external,
     allocated |-> nt.allocated, last |-> nt.last,
     msgs |-> msgs, mapping |-> mapping, exc |-> exc]

\* the outcome of an operation on the table r that sent what sent holds
Sent(r, mapping, sent) ==
    IF sent.exc # "none" THEN Outcome(r, sent.msgs, NoneEntry, sent.exc)
    ELSE Outcome(r, sent.msgs, mapping, "none")

\* create_mapping once add_entry has returned r
Added(r) ==
    IF r.exc # "none" THEN Outcome(r, <<>>, NoneEntry, r.exc)
    ELSE Sent(r, r.ret, install_nat_entry(r.ret))

create_mapping(nt, internal_ip, internal_port, external_ip, external_port, protocol, lifetime) ==
    IF find_entry(nt, internal_ip, internal_port) # NoneEntry
    THEN Outcome(nt, <<>>, NoneEntry, "MappingError")
    ELSE Added(add_entry(nt, internal_ip, internal_port, lifetime,
                         external_ip, external_port, protocol))

find_mapping(nt, internal_ip, internal_port) ==
    find_entry(nt, internal_ip, internal_port)

\* update_mapping_lifetime once update_entry_lifetime has returned r
Updated(r) == Sent(r, r.ret, modify_nat_entry_lifetime(r.ret))

update_mapping_lifetime(nt, internal_ip, internal_port, lifetime) ==
    IF find_entry(nt, internal_ip, internal_port) = NoneEntry
    THEN Outcome(nt, <<>>, NoneEntry, "MappingError")
    ELSE Updated(update_entry_lifetime(nt, internal_ip, internal_port, lifetime))

\* remove_mapping once remove_entry has returned r
Removed(r, msgs) == Outcome(r, msgs, r.exc = "none", r.exc)

\* remove_mapping once the flow entries are uninstalled, or need not be
Uninstalled(nt, internal_ip, internal_port, un) ==
    IF un.exc # "none" THEN Outcome(nt, un.msgs, FALSE, un.exc)
    ELSE Removed(remove_entry(nt, internal_ip, internal_port), un.msgs)

\* mapping is the value returned: TRUE or FALSE
remove_mapping(nt, internal_ip, internal_port, mapping_removal_type) ==
    LET table_entry == find_entry(nt, internal_ip, internal_port)
    IN  IF table_entry = NoneEntry THEN Outcome(nt, <<>>, FALSE, "none")
        ELSE Uninstalled(nt, internal_ip, internal_port,
                         IF mapping_removal_type = REQUESTED_BY_CLIENT
                         THEN uninstall_nat_entry(table_entry)
                         ELSE [msgs |-> <<>>, exc |-> "none"])

(***************************************************************************)
(* PcpServer (pcpserver.py).  A request is the record of the fields the    *)
(* parser filled in.                                                       *)
(***************************************************************************)
_get_minimum_acceptable_mapping_lifetime(opcode, lifetime) ==
    IF opcode = MAP /\ lifetime < default_pcp_map_assigned_lifetime_seconds
    THEN default_pcp_map_assigned_lifetime_seconds
    ELSE IF opcode = PEER /\ lifetime < default_pcp_peer_assigned_lifetime_seconds
    THEN default_pcp_peer_assigned_lifetime_seconds
    ELSE lifetime

\* _get_minimum_acceptable_mapping_lifetime that returns the lifetime asked for
_get_minimum_acceptable_mapping_lifetime_unclamped(opcode, lifetime, config) ==
    lifetime

\* _get_minimum_acceptable_mapping_lifetime under the configuration config
_get_minimum_acceptable_mapping_lifetime_configured(opcode, lifetime, config) ==
    IF opcode = MAP
       /\ lifetime < config.default_pcp_map_assigned_lifetime_seconds
    THEN config.default_pcp_map_assigned_lifetime_seconds
    ELSE IF opcode = PEER
            /\ lifetime < config.default_pcp_peer_assigned_lifetime_seconds
    THEN config.default_pcp_peer_assigned_lifetime_seconds
    ELSE lifetime

\* _FACTORY_DEFAULT_CONFIG, the entries of the minimum lifetimes
FactoryConfig ==
    [default_pcp_map_assigned_lifetime_seconds |->
        default_pcp_map_assigned_lifetime_seconds,
     default_pcp_peer_assigned_lifetime_seconds |->
        default_pcp_peer_assigned_lifetime_seconds]

\* the range of PcpServer._calculate_epoch_time, the seconds since the server
\* was made: int(round(time.time() - self._start_time))
EpochTimes == 0 .. MaxEpochTime

\* the fields of the response to pcp_request, built epoch_time seconds after
\* the server was made; update() sets a field whether the request has it or
\* not
_build_pcp_response_payload(pcp_request, mapping, epoch_time) ==
    LET updated == [version |-> 2, message_type |-> RESPONSE,
                    result_code |-> SUCCESS, epoch_time |-> epoch_time]
                       @@ pcp_request
    IN  IF mapping # NoneEntry
        THEN IF pcp_request.opcode \in {MAP, PEER}
             THEN [lifetime |-> mapping.lifetime,
                   external_ip |-> mapping.external_ip,
                   external_port |-> mapping.external_port] @@ updated
             ELSE [lifetime |-> mapping.lifetime] @@ updated
        ELSE [lifetime |-> 0] @@ updated

\* the fields PcpMessage.serialize reads of a response with result SUCCESS;
\* Message.__getitem__ raises KeyError for one that is not set
SerializedFields(pcp_response) ==
    {"version", "opcode", "message_type", "result_code", "lifetime",
     "epoch_time"}
    \cup (IF pcp_response.opcode \in {MAP, PEER}
          THEN {"mapping_nonce", "protocol", "internal_port", "external_port",
                "external_ip"}
          ELSE {})
    \cup (IF pcp_response.opcode = PEER
          THEN {"remote_peer_port", "remote_peer_ip"}
          ELSE {})

\* the OFPPacketOut of dphelper.send_packet
send_packet(payload, out_port) ==
    [type |-> "packet_out", out_port |-> out_port, payload |-> payload]

\* process_pcp_request once the mapping operation of its branch has returned
\* r: _build_pcp_response_packet serializes the payload before send_packet
Responded(pcp_request, branch, r, epoch_time) ==
    LET pcp_response == _build_pcp_response_payload(pcp_request,
                            IF branch = "remove" THEN NoneEntry ELSE r.mapping,
                            epoch_time)
        serialized == SerializedFields(pcp_response) \subseteq DOMAIN pcp_response
    IN  [table |-> r.table, table_external |-> r.table_external,
         allocated |-> r.allocated, last |-> r.last,
         msgs |-> IF r.exc = "none" /\ serialized
                  THEN Append(r.msgs, send_packet(pcp_response, AccessPort))
                  ELSE r.msgs,
         branch |-> branch,
         exc |-> IF r.exc = "none" /\ ~serialized THEN "KeyError" ELSE r.exc]

\* what PcpMessage.parse returns for a message to drop silently
NoneMessage == [none |-> TRUE]

\* what PcpMessage.parse returns otherwise: the fields it has set and its
\* parse_result
ParsedMessage(fields, parse_result) ==
    [fields |-> fields, parse_result |-> parse_result]

\* the fields process_pcp_request reads to build mapping_params
MappingParamFields ==
    {"pcp_client_ip", "internal_port", "external_ip", "external_port",
     "protocol", "lifetime"}

\* process_pcp_request returns before it has sent or changed anything
Returned(nt, branch, exc) ==
    [table |-> nt.table, table_external |-> nt.table_external,
     allocated |-> nt.allocated, last |-> nt.last,
     msgs |-> <<>>, branch |-> branch, exc |-> exc]

\* process_pcp_request from mapping_params on, for the fields of a request
\* that has them all
MappingRequestedWith(nt, pcp_request, lifetime, epoch_time) ==
    IF pcp_request.lifetime # 0
    THEN IF find_mapping(nt, pcp_request.pcp_client_ip,
                         pcp_request.internal_port) # NoneEntry
         THEN Responded(pcp_request, "update",
                  update_mapping_lifetime(nt, pcp_request.pcp_client_ip,
                      pcp_request.internal_port, lifetime), epoch_time)
         ELSE Responded(pcp_request, "create",
                  create_mapping(nt, pcp_request.pcp_client_ip,
                      pcp_request.internal_port, pcp_request.external_ip,
                      pcp_request.external_port, pcp_request.protocol,
                      lifetime), epoch_time)
    ELSE Responded(pcp_request, "remove",
             remove_mapping(nt, pcp_request.pcp_client_ip,
                            pcp_request.internal_port, REQUESTED_BY_CLIENT),
             epoch_time)

\* lines 46-72 of process_pcp_request under the factory configuration
MappingRequested(nt, pcp_request, epoch_time) ==
    MappingRequestedWith(nt, pcp_request,
        _get_minimum_acceptable_mapping_lifetime(pcp_request.opcode,
                                                 pcp_request.lifetime),
        epoch_time)

\* process_pcp_request without the test of parse_result
process_pcp_request_unchecked(nt, pcp_request, epoch_time) ==
    IF pcp_request = NoneMessage THEN Returned(nt, "drop", "none")
    ELSE IF ~(MappingParamFields \subseteq DOMAIN pcp_request.fields)
    THEN Returned(nt, "mapping_params", "KeyError")
    ELSE MappingRequested(nt, pcp_request.fields, epoch_time)

\* the NatTable after the packet-in of what the parser returned, the messages
\* sent, the branch taken and the exception raised; Message.__getitem__ raises
\* KeyError for a field the parser has not set
process_pcp_request(nt, pcp_request, epoch_time) ==
    IF pcp_request = NoneMessage THEN Returned(nt, "drop", "none")
    ELSE IF pcp_request.parse_result # SUCCESS
    THEN Returned(nt, "drop", "none")
    ELSE IF ~(MappingParamFields \subseteq DOMAIN pcp_request.fields)
    THEN Returned(nt, "mapping_params", "KeyError")
    ELSE MappingRequested(nt, pcp_request.fields, epoch_time)

\* process_pcp_request under the configuration config
process_pcp_request_configured(nt, pcp_request, config, epoch_time) ==
    IF pcp_request = NoneMessage THEN Returned(nt, "drop", "none")
    ELSE IF pcp_request.parse_result # SUCCESS
    THEN Returned(nt, "drop", "none")
    ELSE IF ~(MappingParamFields \subseteq DOMAIN pcp_request.fields)
    THEN Returned(nt, "mapping_params", "KeyError")
    ELSE MappingRequestedWith(nt, pcp_request.fields,
             _get_minimum_acceptable_mapping_lifetime_configured(
                 pcp_request.fields.opcode, pcp_request.fields.lifetime,
                 config), epoch_time)

(***************************************************************************)
(* State.                                                                  *)
(***************************************************************************)
VARIABLES
    \* NatTable._table
    table,
    \* NatTable._table_external
    table_external,
    \* NatTable._allocated_external_ips_and_ports
    allocated,
    \* NatTable._last_external_ip
    last_external_ip,
    \* messages the controller has sent that the forwarder has not applied yet
    chan,
    \* NAT flow entries installed at the forwarder
    flows,
    \* flow-removed events the forwarder has emitted, not yet handled
    events,
    \* number of PCP requests the controller has handled
    served,
    \* the step taken last: the call or event handled, with its outcome
    handled,
    \* ArpHandler._arp_table
    arp_table,
    \* number of features events the controller has handled
    connections,
    \* the minimum lifetimes of the configuration loaded at start
    app_config,
    \* the requesters the controller has sent a proxy ARP reply for a dst_ip
    \* on this connection, while no ARP reply from dst_ip has been handled
    \* since
    arp_replied

vars == <<table, table_external, allocated, last_external_ip, chan, flows,
          events, served, handled, arp_table, connections, app_config,
          arp_replied>>

\* the NatTable object
NT == [table |-> table, table_external |-> table_external,
       allocated |-> allocated, last |-> last_external_ip]

\* the fields of the NatTable object after a call with outcome r
SetNT(r) ==
    /\ table' = r.table
    /\ table_external' = r.table_external
    /\ allocated' = r.allocated
    /\ last_external_ip' = r.last

\* the allocator stays within the bounds of the model
WithinBounds(r) ==
    LET top == AddWords(external_ip_high_words, MaxIpOverrun)
    IN  /\ WordsLeq(ParseIp(r.last), top)
        /\ \A ip \in DOMAIN r.allocated :
              /\ WordsLeq(ParseIp(ip), top)
              /\ r.allocated[ip] <= external_port_high_end + 1 + MaxPortOverrun

(***************************************************************************)
(* Inputs.                                                                 *)
(***************************************************************************)
\* internal (ip, port) tuples; the first two have the same ip text followed
\* by the port text
Clients == { <<IpStr(<<172, 16, 0, 2>>), 11>>,
             <<IpStr(<<172, 16, 0, 21>>), 1>>,
             <<IpStr(<<172, 16, 0, 2>>), 1>> }

Lifetimes == 1 .. MaxLifetime

ZeroIp == IpStr(<<0, 0, 0, 0>>)

\* the addresses of the pool and the one after the last
SuggestedIps == { IpStr(AddWords(external_ip_low_words, k)) : k \in 0 .. IpPoolSize }
\* the ports of the pool and the one after the last
SuggestedPorts == external_port_low_end .. (external_port_high_end + 1)

(***************************************************************************)
(* The operations of NatTable, called directly.                            *)
(***************************************************************************)
AddEntry(c, lifetime, external_ip, external_port, protocol) ==
    \E r \in {add_entry(NT, c[1], c[2], lifetime, external_ip, external_port,
                       protocol)} :
        /\ WithinBounds(r)
        /\ SetNT(r)
        /\ handled' = [kind |-> "add_entry", internal_ip |-> c[1],
                       internal_port |-> c[2], exc |-> r.exc, ret |-> r.ret]
        /\ UNCHANGED <<chan, flows, events, served,
                   arp_table, connections, app_config,
                   arp_replied>>

UpdateEntryLifetime(c, lifetime) ==
    \E r \in {update_entry_lifetime(NT, c[1], c[2], lifetime)} :
        /\ SetNT(r)
        /\ handled' = [kind |-> "update_entry_lifetime", internal_ip |-> c[1],
                       internal_port |-> c[2], lifetime |-> lifetime,
                       exc |-> r.exc, ret |-> r.ret]
        /\ UNCHANGED <<chan, flows, events, served,
                   arp_table, connections, app_config,
                   arp_replied>>

RemoveEntry(c) ==
    \E r \in {remove_entry(NT, c[1], c[2])} :
        /\ SetNT(r)
        /\ handled' = [kind |-> "remove_entry", internal_ip |-> c[1],
                       internal_port |-> c[2], exc |-> r.exc, ret |-> r.ret]
        /\ UNCHANGED <<chan, flows, events, served,
                   arp_table, connections, app_config,
                   arp_replied>>

RemoveEntryByExternal(external_ip, external_port) ==
    \E r \in {remove_entry_by_external(NT, external_ip, external_port)} :
        /\ SetNT(r)
        /\ handled' = [kind |-> "remove_entry_by_external",
                       external_ip |-> external_ip,
                       external_port |-> external_port, exc |-> r.exc,
                       ret |-> r.ret]
        /\ UNCHANGED <<chan, flows, events, served,
                   arp_table, connections, app_config,
                   arp_replied>>

\* the state after construction, with the configuration loaded
InitConfigured(config) ==
    /\ table = EmptyDict
    /\ table_external = EmptyDict
    /\ allocated = EmptyDict
    /\ last_external_ip = external_ip_low_end
    /\ chan = <<>>
    /\ flows = {}
    /\ events = <<>>
    /\ served = 0
    /\ handled = [kind |-> "init"]
    /\ arp_table = EmptyDict
    /\ connections = 0
    /\ app_config = config
    /\ arp_replied = {}

Init == InitConfigured(FactoryConfig)

NextNat ==
    \* entries are added with lifetime 1 and get the other lifetimes from
    \* update_entry_lifetime
    \/ \E c \in Clients, external_ip \in SuggestedIps \cup {NoneIp},
          external_port \in SuggestedPorts \cup {NonePort} :
          AddEntry(c, 1, external_ip, external_port, UDP)
    \/ \E c \in Clients, lifetime \in Lifetimes : UpdateEntryLifetime(c, lifetime)
    \/ \E c \in Clients : RemoveEntry(c)
    \/ \E external_ip \in SuggestedIps, external_port \in SuggestedPorts :
          RemoveEntryByExternal(external_ip, external_port)

\* NatTable under any sequence of direct calls
SpecNat == Init /\ [][NextNat]_vars

(***************************************************************************)
(* The controller (sdn_controller.py) and the forwarder it programs.       *)
(* Init is the state once the switch-features event has been handled.      *)
(***************************************************************************)
\* the suggested external (ip, port) of a request: none, a port only, both
Suggestions == { <<ZeroIp, 0>>, <<ZeroIp, external_port_low_end>>,
                 <<external_ip_low_end, external_port_low_end>> }

\* the 12 bytes of the mapping nonce of the requests
RequestNonce == <<1, 2, 3, 4, 100, 255, 142, 17, 10, 9, 2, 4>>

\* a PCP request as the parser returns it
PcpRequest(c, lifetime, protocol, suggested) ==
    [version |-> 2, message_type |-> REQUEST, opcode |-> MAP,
     lifetime |-> lifetime, pcp_client_ip |-> c[1], protocol |-> protocol,
     mapping_nonce |-> Hex(RequestNonce),
     internal_port |-> c[2], external_port |-> suggested[2],
     external_ip |-> suggested[1]]

\* the client of the PEER requests and of the packets that do not reach the
\* mapping operations
AClient == CHOOSE c \in Clients : c[2] = 11

\* the fields of a PEER request: those of MAP and the remote peer
PeerRequest(c, lifetime) ==
    [PcpRequest(c, lifetime, UDP, <<ZeroIp, 0>>) EXCEPT !.opcode = PEER]
        @@ [remote_peer_port |-> 80, remote_peer_ip |-> external_ip_high_end]

\* the fields the parser sets before those of the opcode
CommonFields(version, opcode, c) ==
    [version |-> version, message_type |-> REQUEST, opcode |-> opcode,
     lifetime |-> 1, pcp_client_ip |-> c[1]]

\* the fields of PCP requests that parse with SUCCESS and have those of an
\* opcode: MAP with every lifetime and suggestion and a protocol the forwarder
\* can match, MAP with a protocol it cannot, PEER with every lifetime
Requests ==
    { PcpRequest(c, lifetime, UDP, suggested) :
        c \in Clients, lifetime \in 0 .. MaxLifetime,
        suggested \in Suggestions }
    \cup { PcpRequest(c, 1, OtherProtocol, <<ZeroIp, 0>>) : c \in Clients }
    \cup { PeerRequest(c, lifetime) :
             c \in {AClient}, lifetime \in 0 .. MaxLifetime }

\* what the parser returns with a parse_result other than SUCCESS: a MAP
\* request of version 1 with all its fields, a MAP request cut short, an
\* opcode that does not exist
Failures ==
    { ParsedMessage([PcpRequest(AClient, 1, UDP, <<ZeroIp, 0>>)
                        EXCEPT !.version = 1], UNSUPP_VERSION),
      ParsedMessage(CommonFields(2, MAP, AClient), MALFORMED_REQUEST),
      ParsedMessage(CommonFields(2, 3, AClient), UNSUPP_OPCODE) }

\* what the parser can return for the payload of a PCP packet
PcpPackets ==
    { ParsedMessage(fields, SUCCESS) : fields \in Requests }
    \cup { ParsedMessage(CommonFields(2, ANNOUNCE, AClient), SUCCESS) }
    \cup Failures \cup {NoneMessage}

\* flow_entry_removed_handler that removes no mapping
flow_entry_removed_handler_ignoring(nt, msg) ==
    Outcome(nt, <<>>, FALSE, "none")

\* flow_entry_removed_handler without the tests of the reason and the table:
\* an entry of nat_external_to_internal has the internal (ip, port) in its
\* set-field values, which the event does not carry
flow_entry_removed_handler_any_reason(nt, msg) ==
    IF msg.table_id = nat_internal_to_external
    THEN LET ip_src_name == MATCH_FIELD_NAME_MAPS.ip_src[msg.match.eth_type]
             port_src_name == MATCH_FIELD_NAME_MAPS.port_src[msg.match.ip_proto]
         IN  remove_mapping(nt, msg.match[ip_src_name], msg.match[port_src_name],
                            FLOW_ENTRY_REMOVED_BY_FORWARDER)
    ELSE LET ip_dst_name == MATCH_FIELD_NAME_MAPS.ip_dst[msg.match.eth_type]
             port_dst_name == MATCH_FIELD_NAME_MAPS.port_dst[msg.match.ip_proto]
             entry == find_entry_by_external(nt, msg.match[ip_dst_name],
                                             msg.match[port_dst_name])
         IN  IF entry = NoneEntry THEN Outcome(nt, <<>>, FALSE, "none")
             ELSE remove_mapping(nt, entry.internal_ip, entry.internal_port,
                                 FLOW_ENTRY_REMOVED_BY_FORWARDER)

\* PcpSdnApp.flow_entry_removed_handler
flow_entry_removed_handler(nt, msg) ==
    IF msg.reason = "IDLE_TIMEOUT" /\ msg.table_id = nat_internal_to_external
    THEN LET ip_src_name == MATCH_FIELD_NAME_MAPS.ip_src[msg.match.eth_type]
             port_src_name == MATCH_FIELD_NAME_MAPS.port_src[msg.match.ip_proto]
         IN  remove_mapping(nt, msg.match[ip_src_name], msg.match[port_src_name],
                            FLOW_ENTRY_REMOVED_BY_FORWARDER)
    ELSE Outcome(nt, <<>>, FALSE, "none")

\* datapath.send_msg puts a message at the end of the forwarder's send queue
send_msg(queue, msgs) == queue \o msgs

\* the parser has returned nothing or a parse_result other than SUCCESS
Unparsed(pcp_request) ==
    \/ pcp_request = NoneMessage
    \/ pcp_request.parse_result # SUCCESS

\* PcpSdnApp.packet_in_handler on a PCP packet whose payload the parser turns
\* into pcp_request, epoch_time seconds after the server was made
PcpPacketInAt(pcp_request, epoch_time) ==
    /\ served < MaxRequests
    /\ Len(chan) < MaxChan
    /\ \E r \in {process_pcp_request(NT, pcp_request, epoch_time)} :
        /\ WithinBounds(r)
        /\ Len(chan) + Len(r.msgs) <= MaxChan
        /\ SetNT(r)
        /\ served' = served + 1
        /\ chan' = send_msg(chan, r.msgs)
        /\ handled' = IF Unparsed(pcp_request)
                      THEN [kind |-> "pcp_unparsed", parsed |-> pcp_request,
                            branch |-> r.branch, exc |-> r.exc]
                      ELSE [kind |-> "pcp_request",
                            req |-> pcp_request.fields,
                            branch |-> r.branch, exc |-> r.exc]
        /\ UNCHANGED <<flows, events,
                   arp_table, connections, app_config,
                   arp_replied>>

\* the packet-in of a PCP packet at any time after the making of the server,
\* for the first MaxTimedRequests packets of a run
PcpPacketIn(pcp_request) ==
    /\ served < MaxTimedRequests
    /\ \E epoch_time \in EpochTimes : PcpPacketInAt(pcp_request, epoch_time)

\* PcpSdnApp.flow_entry_removed_handler on the oldest pending event
FlowEntryRemoved ==
    /\ events # <<>>
    /\ \E r \in {flow_entry_removed_handler(NT, Head(events))} :
          /\ SetNT(r)
          /\ chan' = send_msg(chan, r.msgs)
          /\ events' = Tail(events)
          /\ handled' = [kind |-> "flow_removed", msg |-> Head(events),
                         exc |-> r.exc]
          /\ UNCHANGED <<flows, served,
                   arp_table, connections, app_config,
                   arp_replied>>

\* the flow entry an OFPFC_ADD installs: every field of the flow-mod but its
\* type and command
FlowOf(m) ==
    [field \in DOMAIN m \ {"type", "command"} |-> m[field]]

\* the match of a non-strict OFPFC_DELETE covers a flow entry
MatchCovers(match, f) ==
    \A field \in DOMAIN match :
        field \in DOMAIN f.match /\ f.match[field] = match[field]

\* the flow-removed message of a flow entry
FlowRemoved(f, reason) ==
    [reason |-> reason, table_id |-> f.table_id, match |-> f.match]

\* the orders in which the flow entries of a set can be reported
Orderings(S) ==
    { seq \in [1 .. Cardinality(S) -> S] :
        \A i, j \in 1 .. Cardinality(S) : i # j => seq[i] # seq[j] }

\* the forwarder applies an OFPFC_ADD: an entry with the same table, match and
\* priority is replaced
FwdAddNoting(step) ==
    /\ chan # <<>>
    /\ Head(chan).type = "flow_mod" /\ Head(chan).command = "ADD"
    /\ flows' = { f \in flows : ~( /\ f.table_id = Head(chan).table_id
                                  /\ f.match = Head(chan).match
                                  /\ f.priority = Head(chan).priority ) }
                \cup {FlowOf(Head(chan))}
    /\ chan' = Tail(chan)
    /\ handled' = step
    /\ UNCHANGED <<table, table_external, allocated, last_external_ip, events,
                   served,
                   arp_table, connections, app_config,
                   arp_replied>>

FwdAdd == FwdAddNoting([kind |-> "forwarder"])

\* the forwarder applies an OFPFC_DELETE: the entries removed were installed
\* with OFPFF_SEND_FLOW_REM, so each is reported with reason DELETE
FwdDeleteNoting(step) ==
    /\ chan # <<>>
    /\ Head(chan).type = "flow_mod" /\ Head(chan).command = "DELETE"
    /\ "table_id" \in DOMAIN Head(chan)
    /\ LET removed == { f \in flows : /\ f.table_id = Head(chan).table_id
                                      /\ MatchCovers(Head(chan).match, f) }
       IN  /\ Len(events) + Cardinality(removed) <= MaxEvents
           /\ flows' = flows \ removed
           /\ \E seq \in Orderings(removed) :
                 events' = events \o [i \in 1 .. Cardinality(removed) |->
                                         FlowRemoved(seq[i], "DELETE")]
    /\ chan' = Tail(chan)
    /\ handled' = step
    /\ UNCHANGED <<table, table_external, allocated, last_external_ip, served,
                   arp_table, connections, app_config,
                   arp_replied>>

FwdDelete == FwdDeleteNoting([kind |-> "forwarder"])

\* the forwarder sends a PCP response out of a port
FwdPacketOutNoting(step) ==
    /\ chan # <<>>
    /\ Head(chan).type = "packet_out"
    /\ chan' = Tail(chan)
    /\ handled' = step
    /\ UNCHANGED <<table, table_external, allocated, last_external_ip, flows,
                   events, served,
                   arp_table, connections, app_config,
                   arp_replied>>

FwdPacketOut == FwdPacketOutNoting([kind |-> "forwarder"])

\* a flow entry has seen no traffic for idle_timeout seconds: each entry
\* expires on its own traffic
FwdIdleTimeoutNoting(f, step) ==
    /\ f.idle_timeout > 0
    /\ Len(events) < MaxEvents
    /\ flows' = flows \ {f}
    /\ events' = Append(events, FlowRemoved(f, "IDLE_TIMEOUT"))
    /\ handled' = step
    /\ UNCHANGED <<table, table_external, allocated, last_external_ip, chan,
                   served,
                   arp_table, connections, app_config,
                   arp_replied>>

FwdIdleTimeout(f) == FwdIdleTimeoutNoting(f, [kind |-> "forwarder"])

Next ==
    \/ \E pcp_request \in PcpPackets : PcpPacketIn(pcp_request)
    \/ FlowEntryRemoved
    \/ FwdAdd
    \/ FwdDelete
    \/ FwdPacketOut
    \/ \E f \in flows : FwdIdleTimeout(f)

\* the controller serving PCP requests and flow-removed events
Spec == Init /\ [][Next]_vars

\* MAP requests that create a mapping, with and without a suggested port,
\* and that remove it
FairPackets ==
    { ParsedMessage(PcpRequest(c, lifetime, UDP, suggested), SUCCESS) :
        c \in Clients, lifetime \in 0 .. 1,
        suggested \in { <<ZeroIp, 0>>, <<ZeroIp, external_port_low_end>> } }

NextFair ==
    \/ \E pcp_request \in FairPackets : PcpPacketIn(pcp_request)
    \/ FlowEntryRemoved
    \/ FwdAdd
    \/ FwdDelete
    \/ FwdPacketOut
    \/ \E f \in flows : FwdIdleTimeout(f)

\* the controller's event loop hands every queued flow-removed event to its
\* handler
SpecFair == Init /\ [][NextFair]_vars /\ WF_vars(FlowEntryRemoved)

(***************************************************************************)
(* The controller and the forwarder with the order of the requests kept:   *)
(* the step record carries the requests and the expiries the event loop    *)
(* has handled and the flow-mods the forwarder has applied, oldest first.  *)
(***************************************************************************)
\* the PCP requests and the idle timeouts of nat_internal_to_external the
\* event loop has handled so far
Accepted == IF "accepted" \in DOMAIN handled THEN handled.accepted ELSE <<>>

\* the flow-mods the forwarder has applied so far
Observed == IF "observed" \in DOMAIN handled THEN handled.observed ELSE <<>>

\* two internal (ip, port) tuples
OrderedClients == { <<IpStr(<<172, 16, 0, 2>>), 11>>,
                    <<IpStr(<<172, 16, 0, 21>>), 1>> }

\* MAP requests of these clients that create or refresh a mapping
\* (lifetime 1) or remove it (lifetime 0), without a suggested external
\* endpoint
OrderedPackets ==
    { ParsedMessage(PcpRequest(c, lifetime, UDP, <<ZeroIp, 0>>), SUCCESS) :
        c \in OrderedClients, lifetime \in 0 .. 1 }

\* PcpSdnApp.packet_in_handler on a PCP packet, the request noted
OrderedPacketIn(pcp_request, epoch_time) ==
    /\ served < MaxOrderedRequests
    /\ \E r \in {process_pcp_request(NT, pcp_request, epoch_time)} :
        /\ WithinBounds(r)
        /\ Len(chan) + Len(r.msgs) <= MaxOrderedChan
        /\ SetNT(r)
        /\ served' = served + 1
        /\ chan' = send_msg(chan, r.msgs)
        /\ handled' = [kind |-> "pcp_request", req |-> pcp_request.fields,
                       branch |-> r.branch, exc |-> r.exc,
                       accepted |->
                           Append(Accepted,
                               [kind |-> "request",
                                c |-> <<pcp_request.fields.pcp_client_ip,
                                        pcp_request.fields.internal_port>>,
                                lifetime |-> pcp_request.fields.lifetime]),
                       observed |-> Observed]
        /\ UNCHANGED <<flows, events,
                   arp_table, connections, app_config,
                   arp_replied>>

\* the internal (ip, port) of the match of a flow-removed message of
\* nat_internal_to_external
MatchSource(msg) ==
    << msg.match[MATCH_FIELD_NAME_MAPS.ip_src[msg.match.eth_type]],
       msg.match[MATCH_FIELD_NAME_MAPS.port_src[msg.match.ip_proto]] >>

\* PcpSdnApp.flow_entry_removed_handler on the oldest pending event, the
\* expiry of an entry of nat_internal_to_external noted
OrderedFlowEntryRemoved ==
    /\ events # <<>>
    /\ \E r \in {flow_entry_removed_handler(NT, Head(events))} :
          /\ SetNT(r)
          /\ chan' = send_msg(chan, r.msgs)
          /\ events' = Tail(events)
          /\ handled' =
                [kind |-> "flow_removed", msg |-> Head(events), exc |-> r.exc,
                 accepted |->
                     IF /\ Head(events).reason = "IDLE_TIMEOUT"
                        /\ Head(events).table_id = nat_internal_to_external
                     THEN Append(Accepted, [kind |-> "expired",
                                            c |-> MatchSource(Head(events))])
                     ELSE Accepted,
                 observed |-> Observed]
          /\ UNCHANGED <<flows, served,
                   arp_table, connections, app_config,
                   arp_replied>>

\* a step of the forwarder that applies no flow-mod
ForwarderStep ==
    [kind |-> "forwarder", accepted |-> Accepted, observed |-> Observed]

\* the step of the forwarder that applies the oldest message of the channel,
\* a flow-mod
ForwarderApplies ==
    [kind |-> "forwarder", accepted |-> Accepted,
     observed |-> Append(Observed, Head(chan))]

NextOrder ==
    \/ \E pcp_request \in OrderedPackets, epoch_time \in EpochTimes :
          OrderedPacketIn(pcp_request, epoch_time)
    \/ OrderedFlowEntryRemoved
    \/ FwdAddNoting(ForwarderApplies)
    \/ FwdDeleteNoting(ForwarderApplies)
    \/ FwdPacketOutNoting(ForwarderStep)
    \/ \E f \in flows : FwdIdleTimeoutNoting(f, ForwarderStep)

\* the controller and the forwarder, the handled requests and the applied
\* flow-mods kept in order
SpecOrder == Init /\ [][NextOrder]_vars


(***************************************************************************)
(* add_entry without a suggested endpoint, from an empty table.            *)
(***************************************************************************)
\* internal (ip, port) tuples for one call more than MaxRequests
AllocClients ==
    Clients \cup { <<IpStr(<<172, 16, 0, 3>>), port>> : port \in 1 .. 2 }

\* served counts the calls made
AllocAdd(c, lifetime) ==
    /\ served <= MaxRequests
    /\ \E r \in {add_entry(NT, c[1], c[2], lifetime, NoneIp, NonePort, UDP)} :
          /\ WithinBounds(r)
          /\ SetNT(r)
          /\ served' = served + 1
          /\ handled' = [kind |-> "add_entry", internal_ip |-> c[1],
                         internal_port |-> c[2], exc |-> r.exc, ret |-> r.ret]
          /\ UNCHANGED <<chan, flows, events,
                   arp_table, connections, app_config,
                   arp_replied>>

NextAlloc == \E c \in AllocClients, lifetime \in Lifetimes : AllocAdd(c, lifetime)

\* NatTable under add_entry calls that suggest nothing
SpecAlloc == Init /\ [][NextAlloc]_vars

(***************************************************************************)
(* add_entry without a usable suggestion, and remove_entry.                *)
(***************************************************************************)
\* suggestions add_entry turns into None: no address, the zero address; no
\* port, port 0, the port after the last of the pool
UnusableIps == { NoneIp, IpStr(<<0, 0, 0, 0>>) }
UnusablePorts == { NonePort, 0, external_port_high_end + 1 }

\* the external endpoints the successful add_entry calls have returned so
\* far, oldest first
Handed == IF "handed" \in DOMAIN handled THEN handled.handed ELSE <<>>

\* assigned tells whether the endpoint returned was that of an entry of the
\* table when add_entry was called
AutoAdd(c, external_ip, external_port) ==
    \E r \in {add_entry(NT, c[1], c[2], 1, external_ip, external_port, UDP)} :
        /\ WithinBounds(r)
        /\ SetNT(r)
        /\ handled' =
              [kind |-> "add_entry", internal_ip |-> c[1],
               internal_port |-> c[2], exc |-> r.exc, ret |-> r.ret,
               assigned |-> /\ r.exc = "none"
                            /\ find_entry_by_external(NT, r.ret.external_ip,
                                  r.ret.external_port) # NoneEntry,
               handed |-> IF r.exc = "none"
                          THEN Append(Handed, <<r.ret.external_ip,
                                                r.ret.external_port>>)
                          ELSE Handed]
        /\ UNCHANGED <<chan, flows, events, served,
                   arp_table, connections, app_config,
                   arp_replied>>

AutoRemove(c) ==
    \E r \in {remove_entry(NT, c[1], c[2])} :
        /\ SetNT(r)
        /\ handled' = [kind |-> "remove_entry", internal_ip |-> c[1],
                       internal_port |-> c[2], exc |-> r.exc, ret |-> r.ret,
                       handed |-> Handed]
        /\ UNCHANGED <<chan, flows, events, served,
                   arp_table, connections, app_config,
                   arp_replied>>

NextAuto ==
    \/ \E c \in Clients, external_ip \in UnusableIps,
          external_port \in UnusablePorts :
          AutoAdd(c, external_ip, external_port)
    \/ \E c \in Clients : AutoRemove(c)

\* NatTable under add_entry calls without a usable suggestion and
\* remove_entry calls
SpecAuto == Init /\ [][NextAuto]_vars

(***************************************************************************)
(* add_entry with suggested endpoints, with the configured pool of         *)
(* addresses 200.0.0.2 .. 200.0.255.254.                                   *)
(***************************************************************************)
\* suggested addresses: none, zero, the first of the pool, one of the pool
\* whose text sorts before the first, the last of the pool, one after it
PoolSuggestedIps ==
    { NoneIp, ZeroIp, external_ip_low_end, IpStr(<<200, 0, 0, 10>>),
      configured_ip_high_end, IpStr(<<200, 1, 0, 0>>) }

\* suggested ports: none, zero, the first of the pool, the one after the last
PoolSuggestedPorts ==
    { NonePort, 0, external_port_low_end, external_port_high_end + 1 }

PoolAdd(c, external_ip, external_port) ==
    /\ served < MaxRequests
    /\ \E r \in {add_entry_configured(NT, c[1], c[2], 1, external_ip,
                                      external_port, UDP)} :
          /\ \A ip \in DOMAIN r.allocated :
                r.allocated[ip] <= external_port_high_end + 1 + MaxPortOverrun
          /\ SetNT(r)
          /\ served' = served + 1
          /\ handled' = [kind |-> "add_entry_configured",
                         internal_ip |-> c[1], internal_port |-> c[2],
                         external_ip |-> external_ip,
                         external_port |-> external_port,
                         exc |-> r.exc, ret |-> r.ret]
          /\ UNCHANGED <<chan, flows, events,
                   arp_table, connections, app_config,
                   arp_replied>>

NextPool ==
    \E c \in Clients, external_ip \in PoolSuggestedIps,
       external_port \in PoolSuggestedPorts :
        PoolAdd(c, external_ip, external_port)

\* NatTable with the configured pool under add_entry calls
SpecPool == Init /\ [][NextPool]_vars

(***************************************************************************)
(* The operations of NatHandler, called directly.                          *)
(***************************************************************************)
\* a call of NatHandler has returned or raised with outcome r
HandlerCalled(kind, c, r) ==
    /\ WithinBounds(r)
    /\ Len(chan) + Len(r.msgs) <= MaxChan
    /\ SetNT(r)
    /\ served' = served + 1
    /\ chan' = send_msg(chan, r.msgs)
    /\ handled' = [kind |-> kind, internal_ip |-> c[1],
                   internal_port |-> c[2], exc |-> r.exc]
    /\ UNCHANGED <<flows, events,
                   arp_table, connections, app_config,
                   arp_replied>>

CreateMapping(c, suggested, lifetime) ==
    /\ served < MaxRequests
    /\ \E r \in {create_mapping(NT, c[1], c[2], suggested[1], suggested[2],
                               UDP, lifetime)} :
          HandlerCalled("create_mapping", c, r)

UpdateMappingLifetime(c, lifetime) ==
    /\ served < MaxRequests
    /\ \E r \in {update_mapping_lifetime(NT, c[1], c[2], lifetime)} :
          HandlerCalled("update_mapping_lifetime", c, r)

RemoveMapping(c) ==
    /\ served < MaxRequests
    /\ \E r \in {remove_mapping(NT, c[1], c[2], REQUESTED_BY_CLIENT)} :
          HandlerCalled("remove_mapping", c, r)

NextHandler ==
    \/ \E c \in Clients, suggested \in Suggestions :
          CreateMapping(c, suggested, 1)
    \/ \E c \in Clients, lifetime \in Lifetimes :
          UpdateMappingLifetime(c, lifetime)
    \/ \E c \in Clients : RemoveMapping(c)
    \/ FlowEntryRemoved
    \/ FwdAdd
    \/ FwdDelete

\* NatHandler under any sequence of direct calls, with the forwarder
SpecHandler == Init /\ [][NextHandler]_vars

(***************************************************************************)
(* The features event of a forwarder, the base flow entries and ARP.       *)
(***************************************************************************)
\* PcpSdnApp._PORTS['external']
ExternalPort == 2
\* ofproto.OFPP_CONTROLLER, 0xfffffffd, as a signed 32-bit integer
OFPP_CONTROLLER == -3
\* the priority of an OFPFlowMod built without one, OFP_DEFAULT_PRIORITY
OFP_DEFAULT_PRIORITY == 32768
\* IDs FlowTableHelper assigns to PcpSdnApp._FLOW_TABLES, in list order;
\* arp_forwarding and mac_overwriting are aliases of pcp_message_forwarding
pcp_message_forwarding == 0
arp_forwarding == pcp_message_forwarding
mac_overwriting == pcp_message_forwarding
nat_port_match == 1
_ARP_FORWARDING_PRIORITY == 2
_PCP_FORWARDING_PRIORITY == 3
default_mac_modifying_flow_entries_priority == 1
ETH_TYPE_ARP == 2054
pcp_server_listening_port == 5351

\* dphelper.get_mac_addr_from_datapath of the one forwarder
datapath_mac_addr == "dp"

\* None, for a MAC address
NoneMac == "None"

\* parser.OFPMatch() without fields
MatchAll == [field \in {} |-> 0]

\* pcp_data.PCP_REQUEST_FIELDS and PCP_RESPONSE_FIELDS with the in_port
PcpRequestMatch(in_port) ==
    [in_port |-> in_port, eth_type |-> IPv4, ip_proto |-> UDP,
     udp_dst |-> pcp_server_listening_port]

PcpResponseMatch(in_port) ==
    [in_port |-> in_port, eth_type |-> IPv4, ip_proto |-> UDP,
     udp_src |-> pcp_server_listening_port]

\* parser.OFPActionOutput(port)
OFPActionOutput(port) == [type |-> "OUTPUT", port |-> port]

\* parser.OFPActionSetField(field=value)
OFPActionSetField(field, value) ==
    [type |-> "SET_FIELD", field |-> field, value |-> value]

OFPInstructionActions(actions) ==
    [type |-> "APPLY_ACTIONS", actions |-> actions]

OFPInstructionGotoTable(table_id) ==
    [type |-> "GOTO_TABLE", table_id |-> table_id]

\* the OFPFlowMod of dphelper.add_flow_entry with the instructions given;
\* idle_timeout and flags are the ones of an OFPFlowMod built without them
add_flow_entry_instructions(match, instructions, table_id, priority) ==
    [type |-> "flow_mod", command |-> "ADD", table_id |-> table_id,
     match |-> match, instructions |-> instructions, idle_timeout |-> 0,
     priority |-> priority, flags |-> "NONE"]

\* dphelper.add_flow_entry without instructions: the actions are applied
add_flow_entry(match, actions, table_id, priority) ==
    add_flow_entry_instructions(match, <<OFPInstructionActions(actions)>>,
                                table_id, priority)

\* dphelper.add_instruction_goto_next_table without a priority
add_instruction_goto_next_table(table_id, next_table_id, match) ==
    add_flow_entry_instructions(match,
                                <<OFPInstructionGotoTable(next_table_id)>>,
                                table_id, 0)

\* dphelper.clear_datapath: an OFPFC_DELETE built without a match and
\* without a table_id
clear_datapath ==
    [type |-> "flow_mod", command |-> "DELETE", match |-> MatchAll,
     out_port |-> "ANY", out_group |-> "ANY"]

\* PcpSdnApp._install_arp_forwarding
_install_arp_forwarding(in_ports, table_id) ==
    [i \in 1 .. Len(in_ports) |->
        add_flow_entry([in_port |-> in_ports[i], eth_type |-> ETH_TYPE_ARP],
                       <<OFPActionOutput(OFPP_CONTROLLER)>>, table_id,
                       _ARP_FORWARDING_PRIORITY)]

_install_pcp_request_forwarding(pcp_request_in_port, table_id, priority) ==
    add_flow_entry(PcpRequestMatch(pcp_request_in_port),
                   <<OFPActionOutput(OFPP_CONTROLLER)>>, table_id, priority)

_install_pcp_response_forwarding(pcp_response_out_port, table_id, priority) ==
    add_flow_entry(PcpResponseMatch(OFPP_CONTROLLER),
                   <<OFPActionOutput(pcp_response_out_port)>>, table_id,
                   priority)

\* pcpinstaller.install_pcp_message_forwarding
install_pcp_message_forwarding(port, table_id, next_table_id, priority) ==
    << _install_pcp_request_forwarding(port, table_id, priority),
       _install_pcp_response_forwarding(port, table_id, priority),
       add_instruction_goto_next_table(table_id, next_table_id, MatchAll) >>

\* NatInstaller._install_table_port_matching, which NatInstaller.__init__
\* calls
_install_table_port_matching(external_port) ==
    << add_instruction_goto_next_table(nat_port_match,
                                       nat_external_to_internal,
                                       [in_port |-> external_port]),
       add_instruction_goto_next_table(nat_port_match,
                                       nat_internal_to_external, MatchAll) >>

\* PcpSdnApp._install_simple_packet_forwarding
_install_simple_packet_forwarding(table_id) ==
    << add_flow_entry([in_port |-> AccessPort],
                      <<OFPActionOutput(ExternalPort)>>, table_id,
                      OFP_DEFAULT_PRIORITY),
       add_flow_entry([in_port |-> ExternalPort],
                      <<OFPActionOutput(AccessPort)>>, table_id,
                      OFP_DEFAULT_PRIORITY) >>

\* NatTable.__init__: the table of a new NatHandler
NatTable ==
    [table |-> EmptyDict, table_external |-> EmptyDict,
     allocated |-> EmptyDict, last |-> external_ip_low_end]

\* ArpHandler.__init__: the table of a new ArpHandler
ArpTable == EmptyDict

\* the installs of switch_features_handler that follow clear_datapath
BaseInstalls ==
    _install_arp_forwarding(<<AccessPort, ExternalPort>>, arp_forwarding)
    \o install_pcp_message_forwarding(AccessPort, pcp_message_forwarding,
                                      nat_port_match,
                                      _PCP_FORWARDING_PRIORITY)
    \o _install_table_port_matching(ExternalPort)
    \o _install_simple_packet_forwarding(packet_forwarding)

\* switch_features_handler that keeps the NatHandler and the ArpHandler it has
switch_features_handler_keeping(nt, arp) ==
    [nat |-> nt, arp |-> arp, msgs |-> <<clear_datapath>> \o BaseInstalls]

\* PcpSdnApp.switch_features_handler, with nt and arp the tables of the
\* handlers the application holds
switch_features_handler(nt, arp) ==
    [nat |-> NatTable, arp |-> ArpTable,
     msgs |-> <<clear_datapath>> \o BaseInstalls]

\* ArpTableEntry
ArpTableEntry(src_ip, dst_ip, src_mac, dst_mac, datapath_mac) ==
    [src_ip |-> src_ip, dst_ip |-> dst_ip, src_mac |-> src_mac,
     dst_mac |-> dst_mac, datapath_mac |-> datapath_mac]

\* packet.arp.arp_ip in an Ethernet frame, as _build_arp_message builds it
ArpMessage(opcode, src_mac, src_ip, dst_mac, dst_ip) ==
    [opcode |-> opcode, src_mac |-> src_mac, src_ip |-> src_ip,
     dst_mac |-> dst_mac, dst_ip |-> dst_ip]

\* ArpHandler._install_mac_modifying_flow_entries
_install_mac_modifying_flow_entries(in_port, out_port, in_mac, out_mac, datapath_mac) ==
    << add_flow_entry_instructions(
          [in_port |-> in_port, eth_src |-> in_mac, eth_dst |-> datapath_mac],
          << OFPInstructionActions(
                <<OFPActionSetField("eth_src", datapath_mac),
                  OFPActionSetField("eth_dst", out_mac)>>),
             OFPInstructionGotoTable(nat_port_match) >>,
          mac_overwriting, default_mac_modifying_flow_entries_priority),
       add_flow_entry_instructions(
          [in_port |-> out_port, eth_src |-> out_mac, eth_dst |-> datapath_mac],
          << OFPInstructionActions(
                <<OFPActionSetField("eth_src", datapath_mac),
                  OFPActionSetField("eth_dst", in_mac)>>),
             OFPInstructionGotoTable(nat_port_match) >>,
          mac_overwriting, default_mac_modifying_flow_entries_priority) >>

\* _process_arp_request that asks the destination before it answers the
\* requester
_process_arp_request_asking_first(arp, header_arp, in_port, out_port) ==
    [arp |-> DictSet(arp, header_arp.dst_ip,
                     ArpTableEntry(header_arp.src_ip, header_arp.dst_ip,
                                   header_arp.src_mac, NoneMac,
                                   datapath_mac_addr)),
     msgs |-> << send_packet(ArpMessage("ARP_REQUEST", datapath_mac_addr,
                                        header_arp.src_ip, "ff:ff:ff:ff:ff:ff",
                                        header_arp.dst_ip), out_port),
                 send_packet(ArpMessage("ARP_REPLY", datapath_mac_addr,
                                        header_arp.dst_ip, header_arp.src_mac,
                                        header_arp.src_ip), in_port) >>]

\* ArpHandler._process_arp_request
_process_arp_request(arp, header_arp, in_port, out_port) ==
    [arp |-> DictSet(arp, header_arp.dst_ip,
                     ArpTableEntry(header_arp.src_ip, header_arp.dst_ip,
                                   header_arp.src_mac, NoneMac,
                                   datapath_mac_addr)),
     msgs |-> << send_packet(ArpMessage("ARP_REPLY", datapath_mac_addr,
                                        header_arp.dst_ip, header_arp.src_mac,
                                        header_arp.src_ip), in_port),
                 send_packet(ArpMessage("ARP_REQUEST", datapath_mac_addr,
                                        header_arp.src_ip, "ff:ff:ff:ff:ff:ff",
                                        header_arp.dst_ip), out_port) >>]

\* _process_arp_reply that passes in_port and out_port as it got them
_process_arp_reply_ports_as_given(arp, header_arp, in_port, out_port) ==
    IF header_arp.src_ip \notin DOMAIN arp THEN [arp |-> arp, msgs |-> <<>>]
    ELSE [arp |-> [arp EXCEPT ![header_arp.src_ip].dst_mac = header_arp.src_mac],
          msgs |-> _install_mac_modifying_flow_entries(
                      in_port, out_port, arp[header_arp.src_ip].src_mac,
                      header_arp.src_mac, datapath_mac_addr)]

\* ArpHandler._process_arp_reply
_process_arp_reply(arp, header_arp, in_port, out_port) ==
    IF header_arp.src_ip \notin DOMAIN arp THEN [arp |-> arp, msgs |-> <<>>]
    ELSE [arp |-> [arp EXCEPT ![header_arp.src_ip].dst_mac = header_arp.src_mac],
          msgs |-> _install_mac_modifying_flow_entries(
                      out_port, in_port, arp[header_arp.src_ip].src_mac,
                      header_arp.src_mac, datapath_mac_addr)]

\* ArpHandler.process_arp
process_arp(arp, header_arp, in_port, out_port) ==
    IF header_arp.opcode = "ARP_REQUEST"
    THEN _process_arp_request(arp, header_arp, in_port, out_port)
    ELSE IF header_arp.opcode = "ARP_REPLY"
    THEN _process_arp_reply(arp, header_arp, in_port, out_port)
    ELSE [arp |-> arp, msgs |-> <<>>]

\* number of features events the model lets the forwarder send
MaxConnections == 2

\* the hosts that send ARP messages: a host of the access network asks for
\* a host of the external network, which replies
AccessHost == [ip |-> IpStr(<<172, 16, 0, 1>>), mac |-> "aa"]
ExternalHost == [ip |-> IpStr(<<200, 0, 0, 9>>), mac |-> "bb"]

\* the internal (ip, port) tuples that ask for a mapping between features
\* events: one more than the pool of an address has ports
ConnectClients ==
    { <<IpStr(<<172, 16, 0, 2>>), port>> : port \in 1 .. PortPoolSize }
    \cup { <<IpStr(<<172, 16, 0, 3>>), 1>> }

ArpPackets ==
    { [header |-> ArpMessage("ARP_REQUEST", AccessHost.mac, AccessHost.ip,
                             "ff:ff:ff:ff:ff:ff", ExternalHost.ip),
       in_port |-> AccessPort],
      [header |-> ArpMessage("ARP_REPLY", ExternalHost.mac, ExternalHost.ip,
                             datapath_mac_addr, AccessHost.ip),
       in_port |-> ExternalPort] }

\* PcpSdnApp.switch_features_handler on the features reply of a connection
\* the forwarder has opened: what the closed connection had not delivered,
\* in either direction, is lost
SwitchFeatures ==
    /\ connections < MaxConnections
    /\ \E r \in {switch_features_handler(NT, arp_table)} :
          /\ SetNT(r.nat)
          /\ arp_table' = r.arp
          /\ chan' = send_msg(<<>>, r.msgs)
          /\ events' = <<>>
          /\ connections' = connections + 1
          /\ handled' = [kind |-> "switch_features", nat |-> NT,
                         arp |-> arp_table]
          /\ arp_replied' = {}
          /\ UNCHANGED <<flows, served, app_config>>

\* PcpSdnApp.packet_in_handler on an ARP packet
ArpPacketIn(p) ==
    /\ connections > 0
    /\ Len(chan) + 2 <= MaxChan
    /\ \E r \in {process_arp(arp_table, p.header, p.in_port,
                             IF p.in_port = AccessPort THEN ExternalPort
                             ELSE AccessPort)} :
          /\ arp_table' = r.arp
          /\ chan' = send_msg(chan, r.msgs)
          /\ handled' = [kind |-> "arp", header |-> p.header,
                         in_port |-> p.in_port]
          /\ arp_replied' =
                IF p.header.opcode = "ARP_REQUEST"
                THEN arp_replied \cup {[src_ip |-> p.header.src_ip,
                                        src_mac |-> p.header.src_mac,
                                        dst_ip |-> p.header.dst_ip,
                                        in_port |-> p.in_port]}
                ELSE { w \in arp_replied : w.dst_ip # p.header.src_ip }
          /\ UNCHANGED <<table, table_external, allocated, last_external_ip,
                         flows, events, served, connections, app_config>>

\* the forwarder applies the OFPFC_DELETE of clear_datapath, which names no
\* table: the library puts its default table ID into the message, so the
\* forwarder takes it for one table or for all of them
FwdClear ==
    /\ chan # <<>>
    /\ Head(chan).type = "flow_mod" /\ Head(chan).command = "DELETE"
    /\ "table_id" \notin DOMAIN Head(chan)
    /\ events = <<>>
    /\ \E removed \in { {f \in flows : f.table_id = pcp_message_forwarding},
                        flows } :
          /\ flows' = flows \ removed
          /\ \E seq \in Orderings({f \in removed : f.flags = "SEND_FLOW_REM"}) :
                events' = [i \in 1 .. Len(seq) |-> FlowRemoved(seq[i], "DELETE")]
    /\ chan' = Tail(chan)
    /\ handled' = [kind |-> "forwarder", applied |-> Head(chan)]
    /\ UNCHANGED <<table, table_external, allocated, last_external_ip, served,
                   arp_table, connections, app_config,
                   arp_replied>>

NextConnect ==
    \/ SwitchFeatures
    \/ \E p \in ArpPackets : ArpPacketIn(p)
    \/ connections > 0
       /\ \E c \in ConnectClients : CreateMapping(c, <<ZeroIp, 0>>, 1)
    \/ connections > 0 /\ RemoveMapping(<<IpStr(<<172, 16, 0, 2>>), 1>>)
    \/ FlowEntryRemoved
    \/ FwdClear
    \/ FwdAdd
    \/ FwdDelete
    \/ FwdPacketOut

\* the controller across the connections of its forwarder
SpecConnect == Init /\ [][NextConnect]_vars

(***************************************************************************)
(* ARP between the hosts of the two ports.                                 *)
(***************************************************************************)
\* a second host of the access network, and a host of the external network
\* nobody asks for
SecondAccessHost == [ip |-> IpStr(<<172, 16, 0, 4>>), mac |-> "cc"]
OtherExternalHost == [ip |-> IpStr(<<200, 0, 0, 8>>), mac |-> "dd"]

\* the ARP request of host for dst_ip, received on in_port
ArpRequestOf(host, dst_ip, in_port) ==
    [header |-> ArpMessage("ARP_REQUEST", host.mac, host.ip,
                           "ff:ff:ff:ff:ff:ff", dst_ip),
     in_port |-> in_port]

\* the ARP reply of host to the request the controller sent for requester,
\* received on in_port
ArpReplyOf(host, requester, in_port) ==
    [header |-> ArpMessage("ARP_REPLY", host.mac, host.ip, datapath_mac_addr,
                           requester.ip),
     in_port |-> in_port]

\* the ARP packets the forwarder hands to the controller: two hosts of the
\* access network ask for the same external host and the external host asks
\* for an access host; the hosts asked for reply, and so does a host nobody
\* asked for
ArpInputs ==
    { ArpRequestOf(AccessHost, ExternalHost.ip, AccessPort),
      ArpRequestOf(SecondAccessHost, ExternalHost.ip, AccessPort),
      ArpRequestOf(ExternalHost, AccessHost.ip, ExternalPort),
      ArpReplyOf(ExternalHost, AccessHost, ExternalPort),
      ArpReplyOf(ExternalHost, SecondAccessHost, ExternalPort),
      ArpReplyOf(AccessHost, ExternalHost, AccessPort),
      ArpReplyOf(OtherExternalHost, AccessHost, ExternalPort) }

NextArp ==
    \/ connections = 0 /\ SwitchFeatures
    \/ \E p \in ArpInputs : ArpPacketIn(p)
    \/ FwdClear
    \/ FwdAdd
    \/ FwdPacketOut

\* the controller and the forwarder of one connection, with ARP traffic
SpecArp == Init /\ [][NextArp]_vars

(***************************************************************************)
(* PCP requests under configured minimum lifetimes.                        *)
(***************************************************************************)
\* the minimum lifetimes a configuration file can set
LifetimeConfigs ==
    [default_pcp_map_assigned_lifetime_seconds : 0 .. MaxLifetime,
     default_pcp_peer_assigned_lifetime_seconds : 0 .. MaxLifetime]

\* MAP requests of every internal tuple and PEER requests of one, with every
\* lifetime
LifetimePackets ==
    { ParsedMessage(PcpRequest(c, lifetime, UDP, <<ZeroIp, 0>>), SUCCESS) :
        c \in Clients, lifetime \in 0 .. MaxLifetime }
    \cup { ParsedMessage(PeerRequest(AClient, lifetime), SUCCESS) :
             lifetime \in 0 .. MaxLifetime }

\* PcpSdnApp.packet_in_handler on a PCP packet, under the configuration
\* loaded at start
PcpPacketInConfigured(pcp_request) ==
    /\ served < MaxRequests
    /\ Len(chan) < MaxChan
    /\ \E epoch_time \in EpochTimes :
       \E r \in {process_pcp_request_configured(NT, pcp_request, app_config,
                                                 epoch_time)} :
        /\ WithinBounds(r)
        /\ Len(chan) + Len(r.msgs) <= MaxChan
        /\ SetNT(r)
        /\ served' = served + 1
        /\ chan' = send_msg(chan, r.msgs)
        /\ handled' = [kind |-> "pcp_request", req |-> pcp_request.fields,
                       branch |-> r.branch, exc |-> r.exc]
        /\ UNCHANGED <<flows, events, arp_table, connections, app_config,
                   arp_replied>>

InitLifetime == \E config \in LifetimeConfigs : InitConfigured(config)

NextLifetime ==
    \/ \E pcp_request \in LifetimePackets : PcpPacketInConfigured(pcp_request)
    \/ FlowEntryRemoved
    \/ FwdAdd
    \/ FwdDelete
    \/ FwdPacketOut

\* the controller serving MAP and PEER requests under any configuration of
\* the minimum lifetimes
SpecLifetime == InitLifetime /\ [][NextLifetime]_vars

(***************************************************************************)
(* PCP requests of both transport protocols.                               *)
(***************************************************************************)
\* MAP requests of two internal tuples for TCP and for UDP, with every
\* lifetime
ProtocolPackets ==
    { ParsedMessage(PcpRequest(c, lifetime, protocol, <<ZeroIp, 0>>), SUCCESS) :
        c \in { <<IpStr(<<172, 16, 0, 2>>), 1>>, <<IpStr(<<172, 16, 0, 3>>), 1>> },
        lifetime \in 0 .. MaxLifetime,
        protocol \in {TCP, UDP} }

NextProtocol ==
    \/ \E pcp_request \in ProtocolPackets, epoch_time \in EpochTimes :
          PcpPacketInAt(pcp_request, epoch_time)
    \/ FlowEntryRemoved
    \/ FwdAdd
    \/ FwdDelete
    \/ FwdPacketOut

\* the controller serving requests that name either transport protocol
SpecProtocol == Init /\ [][NextProtocol]_vars

(***************************************************************************)
(* The PCP message parser, on the bytes of the payload.                    *)
(***************************************************************************)
_COMMON_LENGTH == 24
_MAP_OPCODE_LENGTH == 36
_PEER_OPCODE_LENGTH == 56
_MINIMUM_MESSAGE_LENGTH == 2
_MAXIMUM_MESSAGE_LENGTH == 1100
UNSUPP_PROTOCOL == 9
ADDRESS_MISMATCH == 12
\* pcp_data.SUPPORTED_PCP_VERSIONS
SUPPORTED_PCP_VERSIONS == {2}
\* PcpMessageOpcodes.OPCODES
OPCODES == {ANNOUNCE, MAP, PEER}

\* data[first:last] of a string of bytes
Slice(data, first, last) ==
    SubSeq(data, first + 1, IF last < Len(data) THEN last ELSE Len(data))

\* struct.unpack of an unsigned big-endian integer
RECURSIVE Unpack(_)
Unpack(bytes) ==
    IF bytes = <<>> THEN 0
    ELSE 256 * Unpack(SubSeq(bytes, 1, Len(bytes) - 1)) + bytes[Len(bytes)]

\* struct.pack of an unsigned big-endian integer into length bytes
RECURSIVE Pack(_, _)
Pack(n, length) ==
    IF length = 0 THEN <<>>
    ELSE Append(Pack(n \div 256, length - 1), n % 256)

\* str(netaddr.IPAddress(0, version=6))
Ipv6Unspecified == <<58, 58>>

\* '%x' % n
RECURSIVE HexText(_)
HexText(n) ==
    IF n < 16 THEN <<HexDigit(n)>>
    ELSE Append(HexText(n \div 16), HexDigit(n % 16))

\* the eight 16-bit groups of a 16-byte address
Groups(ip_addr_packed) ==
    [i \in 1 .. 8 |-> 256 * ip_addr_packed[2 * i - 1] + ip_addr_packed[2 * i]]

\* the number of groups that are zero from group i on
RECURSIVE ZeroRun(_, _)
ZeroRun(groups, i) ==
    IF i > Len(groups) \/ groups[i] # 0 THEN 0
    ELSE 1 + ZeroRun(groups, i + 1)

\* where "::" stands: the first of the longest runs of two or more zero
\* groups, or 0 when there is none
CompressedFrom(groups) ==
    LET longest(i) == \A j \in 1 .. 8 : ZeroRun(groups, j) <= ZeroRun(groups, i)
        starts == { i \in 1 .. 8 : ZeroRun(groups, i) >= 2 /\ longest(i) }
    IN  IF starts = {} THEN 0
        ELSE CHOOSE i \in starts : \A j \in starts : i <= j

\* the groups first .. last in hexadecimal, separated by colons
RECURSIVE JoinGroups(_, _, _)
JoinGroups(groups, first, last) ==
    IF first > last THEN <<>>
    ELSE IF first = last THEN HexText(groups[first])
    ELSE HexText(groups[first]) \o <<CharColon>>
            \o JoinGroups(groups, first + 1, last)

\* str(netaddr.IPAddress(n, version=6)): the text inet_ntop gives; an
\* address whose first 96 bits are zero and whose seventh group is not is
\* written with its last four bytes as an IPv4 address
Ipv6Str(ip_addr_packed) ==
    LET groups == Groups(ip_addr_packed)
        from == CompressedFrom(groups)
        run == ZeroRun(groups, from)
    IN  IF from = 0 THEN JoinGroups(groups, 1, 8)
        ELSE IF from = 1 /\ run = 6
        THEN Ipv6Unspecified \o IpStr(SubSeq(ip_addr_packed, 13, 16))
        ELSE JoinGroups(groups, 1, from - 1) \o Ipv6Unspecified
                \o JoinGroups(groups, from + run, 8)

\* packed_str_to_ip_addr: an IPv4-mapped IPv6 address, ::ffff:a.b.c.d, becomes
\* the text of the IPv4 address; any other address keeps its IPv6 text
packed_str_to_ip_addr(ip_addr_packed) ==
    IF /\ \A i \in 1 .. 10 : ip_addr_packed[i] = 0
       /\ ip_addr_packed[11] = 255 /\ ip_addr_packed[12] = 255
    THEN IpStr(SubSeq(ip_addr_packed, 13, 16))
    ELSE Ipv6Str(ip_addr_packed)

\* ip_addr_to_packed_str of an IPv4 address given by its four numbers
ip_addr_to_packed_str(words) ==
    [i \in 1 .. 10 |-> 0] \o <<255, 255>> \o words

\* PcpMessage(): no field, parse_result SUCCESS, not to be discarded
NewPcpMessage(pcp_client_ip_address) ==
    [fields |-> EmptyDict, parse_result |-> SUCCESS, should_discard |-> FALSE,
     pcp_client_ip_address |-> pcp_client_ip_address]

\* Message.__setitem__
SetField(m, field_name, field_value) ==
    [m EXCEPT !.fields = DictSet(m.fields, field_name, field_value)]

SetResult(m, parse_result) == [m EXCEPT !.parse_result = parse_result]

\* Python's and: the first operand if it is false, the second otherwise;
\* False and True are the integers 0 and 1
PyBool(b) == IF b THEN 1 ELSE 0

PyAnd(a, b) == IF a = 0 THEN a ELSE b

\* the test of _parse_opcode_map that leaves the port out
ProtocolZeroCheckWithoutPort(lifetime, protocol, internal_port) ==
    PyAnd(PyBool(lifetime # 0), PyBool(protocol = 0)) # 0

\* the test of _parse_opcode_map, lines 318-319:
\* (lifetime != 0 and protocol == 0 and internal_port) != 0
ProtocolZeroCheck(lifetime, protocol, internal_port) ==
    PyAnd(PyAnd(PyBool(lifetime # 0), PyBool(protocol = 0)), internal_port) # 0

_parse_opcode_common(data, m) ==
    SetField(SetField(SetField(SetField(SetField(m,
        "mapping_nonce", Hex(Slice(data, 0, 12))),
        "protocol", data[13]),
        "internal_port", Unpack(Slice(data, 16, 18))),
        "external_port", Unpack(Slice(data, 18, 20))),
        "external_ip", packed_str_to_ip_addr(Slice(data, 20, 36)))

\* _parse_opcode_map once the common fields are in m
MapChecked(m) ==
    IF ProtocolZeroCheck(m.fields.lifetime, m.fields.protocol,
                         m.fields.internal_port)
    THEN SetResult(m, MALFORMED_REQUEST)
    ELSE IF m.fields.internal_port = 0 THEN SetResult(m, UNSUPP_PROTOCOL)
    ELSE m

_parse_opcode_map(data, m) ==
    IF Len(data) < _MAP_OPCODE_LENGTH THEN SetResult(m, MALFORMED_REQUEST)
    ELSE MapChecked(_parse_opcode_common(data, m))

_parse_opcode_peer(data, m) ==
    IF Len(data) < _PEER_OPCODE_LENGTH THEN SetResult(m, MALFORMED_REQUEST)
    ELSE SetField(SetField(_parse_opcode_common(data, m),
             "remote_peer_port", Unpack(Slice(data, 36, 38))),
             "remote_peer_ip", packed_str_to_ip_addr(Slice(data, 40, 56)))

_parse_opcode(data, m) ==
    IF m.fields.opcode = MAP THEN _parse_opcode_map(data, m)
    ELSE IF m.fields.opcode = PEER THEN _parse_opcode_peer(data, m)
    ELSE m

\* _parse_request from the unpacking of the common fields on
CommonParsed(data, m) ==
    LET fields == SetField(SetField(SetField(SetField(m,
                      "message_type", data[2] \div 128),
                      "opcode", data[2] % 128),
                      "lifetime", Unpack(Slice(data, 4, 8))),
                      "pcp_client_ip", packed_str_to_ip_addr(Slice(data, 8, 24)))
        opcode_checked == IF fields.fields.opcode \notin OPCODES
                          THEN SetResult(fields, UNSUPP_OPCODE) ELSE fields
        address_checked ==
            IF m.pcp_client_ip_address # fields.fields.pcp_client_ip
            THEN SetResult(opcode_checked, ADDRESS_MISMATCH)
            ELSE opcode_checked
    IN  _parse_opcode(Slice(data, _COMMON_LENGTH, Len(data)), address_checked)

_parse_request(data, m) ==
    LET version == SetField(m, "version", data[1])
        checked == IF data[1] \notin SUPPORTED_PCP_VERSIONS
                   THEN SetResult(version, UNSUPP_VERSION) ELSE version
    IN  IF Len(data) < _COMMON_LENGTH
        THEN [checked EXCEPT !.should_discard = TRUE]
        ELSE CommonParsed(data, checked)

\* parse once _parse_request has returned m
LengthChecked(data, m) ==
    IF Len(data) % 4 # 0 \/ Len(data) > _MAXIMUM_MESSAGE_LENGTH
    THEN ParsedMessage(m.fields, MALFORMED_REQUEST)
    ELSE ParsedMessage(m.fields, m.parse_result)

\* parse that returns the message of a request shorter than the common part
parse_keeping_short(data, pcp_client_ip_address) ==
    IF Len(data) < _MINIMUM_MESSAGE_LENGTH THEN NoneMessage
    ELSE IF data[2] \div 128 # REQUEST THEN NoneMessage
    ELSE LengthChecked(data,
             _parse_request(data, NewPcpMessage(pcp_client_ip_address)))

\* PcpMessage.parse: NoneMessage, or the fields set with the parse_result
parse(data, pcp_client_ip_address) ==
    IF Len(data) < _MINIMUM_MESSAGE_LENGTH THEN NoneMessage
    ELSE IF data[2] \div 128 # REQUEST THEN NoneMessage
    ELSE LET m == _parse_request(data, NewPcpMessage(pcp_client_ip_address))
         IN  IF m.should_discard THEN NoneMessage
             ELSE LengthChecked(data, m)

\* the PCP client of the parsed payloads, as the IP header has it, and
\* another host
ParseClientWords == <<192, 168, 1, 1>>
ParseOtherWords == <<192, 168, 1, 100>>

\* the bytes of a PEER request; its first 60 bytes are those of a MAP request
\* and its first 24 those of a request without opcode data
RequestData(version, r, opcode, lifetime, client, protocol, internal_port) ==
    <<version, 128 * r + opcode, 0, 0>> \o Pack(lifetime, 4)
    \o ip_addr_to_packed_str(client)
    \o RequestNonce
    \o <<protocol, 0, 0, 0>> \o Pack(internal_port, 2) \o Pack(5555, 2)
    \o ip_addr_to_packed_str(<<200, 0, 0, 1>>)
    \o Pack(4444, 2) \o <<0, 0>>
    \o ip_addr_to_packed_str(<<210, 0, 0, 100>>)

\* data cut or filled with zero bytes to length bytes
Resized(data, length) ==
    [i \in 1 .. length |-> IF i <= Len(data) THEN data[i] ELSE 0]

\* the lengths around every length the parser tests
DataLengths == {0, 1, 2, 10, 23, 24, 25, 59, 60, 61, 79, 80, 84, 1100, 1104}

\* 16-byte addresses that are not IPv4-mapped: ::1, 2001:db8::1 and
\* ::200.0.0.2
Ipv6Addresses ==
    { [i \in 1 .. 15 |-> 0] \o <<1>>,
      <<32, 1, 13, 184>> \o [i \in 1 .. 11 |-> 0] \o <<1>>,
      [i \in 1 .. 12 |-> 0] \o <<200, 0, 0, 2>> }

\* data with ip_addr_packed for suggested external address, bytes 20 to 35
\* of the opcode data
WithExternalAddress(data, ip_addr_packed) ==
    [i \in 1 .. Len(data) |->
        IF i \in 45 .. 60 THEN ip_addr_packed[i - 44] ELSE data[i]]

ParseData ==
    { Resized(RequestData(version, r, opcode, lifetime, client, protocol,
                          internal_port), length) :
        version \in {1, 2}, r \in {0, 1}, opcode \in {ANNOUNCE, MAP, PEER, 7},
        lifetime \in {0, 1, 300}, client \in {ParseClientWords, ParseOtherWords},
        protocol \in {0, UDP}, internal_port \in {0, 1, 1250},
        length \in DataLengths }
    \cup { WithExternalAddress(
              Resized(RequestData(2, 0, opcode, lifetime, ParseClientWords, UDP,
                                  1250), length), ip_addr_packed) :
             opcode \in {MAP, PEER}, lifetime \in {0, 300}, length \in {60, 80},
             ip_addr_packed \in Ipv6Addresses }

\* PcpMessage.parse on the payload of the packet received, whose IP header
\* has the source pcp_client_ip_address
Parse ==
    /\ handled.kind = "packet"
    /\ handled' = [kind |-> "parse", data |-> handled.data,
                   pcp_client_ip_address |-> handled.pcp_client_ip_address,
                   ret |-> parse(handled.data, handled.pcp_client_ip_address)]
    /\ UNCHANGED <<table, table_external, allocated, last_external_ip, chan,
                   flows, events, served, arp_table, connections, app_config,
                   arp_replied>>

\* a packet with any payload has been received
InitParse ==
    /\ table = EmptyDict
    /\ table_external = EmptyDict
    /\ allocated = EmptyDict
    /\ last_external_ip = external_ip_low_end
    /\ chan = <<>>
    /\ flows = {}
    /\ events = <<>>
    /\ served = 0
    /\ arp_table = EmptyDict
    /\ connections = 0
    /\ app_config = FactoryConfig
    /\ arp_replied = {}
    /\ \E data \in ParseData :
          handled = [kind |-> "packet", data |-> data,
                     pcp_client_ip_address |-> IpStr(ParseClientWords)]

NextParse == Parse

\* the parser on any payload
SpecParse == InitParse /\ [][NextParse]_vars

(***************************************************************************)
(* FlowTableHelper.                                                        *)
(***************************************************************************)
\* PcpSdnApp._FLOW_TABLES
_FLOW_TABLES ==
    <<"pcp_message_forwarding", "nat_port_match", "nat_internal_to_external",
      "nat_external_to_internal", "packet_forwarding">>

\* FlowTableHelper.__init__: the IDs by name, the list of the IDs and the
\* index of each ID in that list; flow_table_names holds no name twice
FlowTableHelper(flow_table_names, starting_index) ==
    [flow_tables |->
        [name \in { flow_table_names[i] : i \in 1 .. Len(flow_table_names) } |->
            (CHOOSE i \in 1 .. Len(flow_table_names) :
                flow_table_names[i] = name) - 1 + starting_index],
     flow_table_ids |->
        [i \in 1 .. Len(flow_table_names) |-> i - 1 + starting_index],
     flow_table_ids_and_indexes |->
        [table_id \in { i - 1 + starting_index :
                           i \in 1 .. Len(flow_table_names) } |->
            table_id - starting_index]]

\* FlowTableHelper.__setitem__: the list of IDs and the indexes stay as
\* __init__ made them
FlowTableSetItem(helper, table_name, table_id) ==
    [helper EXCEPT !.flow_tables = DictSet(@, table_name, table_id)]

\* a table name, which is a string, or a table ID, which is an integer
TableName(name) == [type |-> "str", value |-> name]
TableId(table_id) == [type |-> "int", value |-> table_id]

\* the table ID next_table_id works with: the ID of the name, or the argument
\* itself when it is not a key of _flow_tables
ResolvedTable(helper, table_name_or_id) ==
    IF /\ table_name_or_id.type = "str"
       /\ table_name_or_id.value \in DOMAIN helper.flow_tables
    THEN TableId(helper.flow_tables[table_name_or_id.value])
    ELSE table_name_or_id

\* next_table_id that adds one to the ID of a table of the pipeline
next_table_id_adding_one(helper, table_name_or_id) ==
    LET table_id == ResolvedTable(helper, table_name_or_id)
    IN  IF \/ table_id.type # "int"
           \/ table_id.value \notin DOMAIN helper.flow_table_ids_and_indexes
        THEN [exc |-> "ValueError"]
        ELSE [exc |-> "none", value |-> table_id.value + 1]

\* FlowTableHelper.next_table_id: the ID returned or the exception raised
next_table_id(helper, table_name_or_id) ==
    LET table_id == ResolvedTable(helper, table_name_or_id)
        ids == helper.flow_table_ids
    IN  IF \/ table_id.type # "int"
           \/ table_id.value \notin DOMAIN helper.flow_table_ids_and_indexes
        THEN [exc |-> "ValueError"]
        ELSE IF table_id.value >= ids[Len(ids)]
        THEN [exc |-> "ValueError"]
        ELSE [exc |-> "none",
              value |-> ids[helper.flow_table_ids_and_indexes[table_id.value]
                            + 1 + 1]]

\* most assignments to names of a FlowTableHelper
MaxSetItems == 2

\* the names assigned to: the aliases of the controller, a name of the
\* pipeline and a new name
SetItemNames ==
    {"arp_forwarding", "mac_overwriting", "pcp_message_forwarding", "spare"}

\* the IDs assigned and asked for: those of the longest pipeline and the ones
\* next to them
TableIds == -1 .. Len(_FLOW_TABLES) + 1

\* the arguments of next_table_id
TableNamesOrIds ==
    { TableName(name) :
        name \in { _FLOW_TABLES[i] : i \in 1 .. Len(_FLOW_TABLES) }
                 \cup SetItemNames }
    \cup { TableId(table_id) : table_id \in TableIds }

\* the state in which only the step taken last is of interest
InitHandled(h) ==
    /\ table = EmptyDict
    /\ table_external = EmptyDict
    /\ allocated = EmptyDict
    /\ last_external_ip = external_ip_low_end
    /\ chan = <<>>
    /\ flows = {}
    /\ events = <<>>
    /\ served = 0
    /\ arp_table = EmptyDict
    /\ connections = 0
    /\ app_config = FactoryConfig
    /\ arp_replied = {}
    /\ handled = h

\* a FlowTableHelper built from the first tables of the pipeline
InitTables ==
    \E length \in 1 .. Len(_FLOW_TABLES), starting_index \in {0, 1} :
       InitHandled([kind |-> "flow_tables",
                    flow_table_names |-> SubSeq(_FLOW_TABLES, 1, length),
                    starting_index |-> starting_index,
                    helper |-> FlowTableHelper(SubSeq(_FLOW_TABLES, 1, length),
                                               starting_index),
                    set |-> 0])

\* flow_tables[table_name] = table_id
SetItem(table_name, table_id) ==
    /\ handled.kind = "flow_tables"
    /\ handled.set < MaxSetItems
    /\ handled' = [handled EXCEPT
                      !.helper = FlowTableSetItem(@, table_name, table_id),
                      !.set = @ + 1]
    /\ UNCHANGED <<table, table_external, allocated, last_external_ip, chan,
                   flows, events, served, arp_table, connections, app_config,
                   arp_replied>>

\* flow_tables.next_table_id(table_name_or_id)
NextTableId(table_name_or_id) ==
    /\ handled.kind = "flow_tables"
    /\ handled' = [kind |-> "next_table_id",
                   flow_table_names |-> handled.flow_table_names,
                   starting_index |-> handled.starting_index,
                   helper |-> handled.helper,
                   table_name_or_id |-> table_name_or_id,
                   ret |-> next_table_id(handled.helper, table_name_or_id)]
    /\ UNCHANGED <<table, table_external, allocated, last_external_ip, chan,
                   flows, events, served, arp_table, connections, app_config,
                   arp_replied>>

NextTables ==
    \/ \E table_name \in SetItemNames, table_id \in TableIds :
          SetItem(table_name, table_id)
    \/ \E table_name_or_id \in TableNamesOrIds : NextTableId(table_name_or_id)

\* a FlowTableHelper with names assigned to and next_table_id called
SpecTables == InitTables /\ [][NextTables]_vars

(***************************************************************************)
(* The MAC address of a datapath.                                          *)
(***************************************************************************)
\* A datapath ID is a 64-bit integer: it is held as its sixteen hexadecimal
\* digits, most significant first.
\* datapath.id & 0x0000ffffffffffff: the twelve low digits
LowDigits(id) == SubSeq(id, 5, 16)

\* the digits of a number without its leading zeros; none for zero
RECURSIVE Significant(_)
Significant(digits) ==
    IF digits = <<>> THEN <<>>
    ELSE IF Head(digits) = 0 THEN Significant(Tail(digits))
    ELSE digits

\* format(n, '02x'): the hexadecimal digits of n, filled with zeros on the
\* left to two characters
Format02x(digits) ==
    LET significant == Significant(digits)
        text == [i \in 1 .. Len(significant) |-> HexDigit(significant[i])]
    IN  IF Len(text) = 0 THEN <<CharZero, CharZero>>
        ELSE IF Len(text) = 1 THEN <<CharZero>> \o text
        ELSE text

\* text[first:last] of Python, first and last counted from 0
PySlice(text, first, last) ==
    SubSeq(text, first + 1, IF last < Len(text) THEN last ELSE Len(text))


\* ':'.join(parts)
RECURSIVE JoinColon(_)
JoinColon(parts) ==
    IF Len(parts) = 1 THEN parts[1]
    ELSE parts[1] \o <<CharColon>> \o JoinColon(Tail(parts))

\* dphelper.get_mac_addr_from_datapath
get_mac_addr_from_datapath(id) ==
    LET mac_addr == Format02x(LowDigits(id))
    IN  JoinColon([k \in 1 .. 6 |->
                      PySlice(mac_addr, 2 * (k - 1), 2 * (k - 1) + 2)])

\* the low 48 bits of the datapath IDs: from no to twelve leading zero
\* digits, then a first digit and the same digit for the rest
LowValues ==
    { [i \in 1 .. 12 |-> IF i <= zeros THEN 0
                         ELSE IF i = zeros + 1 THEN first ELSE rest] :
        zeros \in 0 .. 12, first \in {1, 10, 15}, rest \in {0, 5, 11} }

\* the datapath IDs: any upper 16 bits before the low 48
DatapathIds ==
    { high \o low : high \in { <<0, 0, 0, 0>>, <<0, 0, 0, 1>>,
                               <<15, 15, 15, 15>> },
                    low \in LowValues }

\* a forwarder with any datapath ID has connected
InitDatapath ==
    \E id \in DatapathIds : InitHandled([kind |-> "datapath", id |-> id])

\* dphelper.get_mac_addr_from_datapath(datapath)
GetMacAddr ==
    /\ handled.kind = "datapath"
    /\ handled' = [kind |-> "mac_addr", id |-> handled.id,
                   ret |-> get_mac_addr_from_datapath(handled.id)]
    /\ UNCHANGED <<table, table_external, allocated, last_external_ip, chan,
                   flows, events, served, arp_table, connections, app_config,
                   arp_replied>>

NextDatapath == GetMacAddr

\* the MAC address of any datapath
SpecDatapath == InitDatapath /\ [][NextDatapath]_vars

(***************************************************************************)
(* Claims about the NAT table.                                             *)
(***************************************************************************)
\* the entries of the primary index
Entries == { table[k] : k \in DOMAIN table }
\* the entries of the shadow index
ExternalEntries == { table_external[k] : k \in DOMAIN table_external }

\* an address lies in the external pool, compared as addresses
InIpPool(ip) ==
    /\ WordsLeq(external_ip_low_words, ParseIp(ip))
    /\ WordsLeq(ParseIp(ip), external_ip_high_words)

\* C1: the primary and the shadow index hold the same entries: every entry
\* found through one index is found through the other as the same entry, and
\* the two indices have the same size.
C1_IndicesHoldSameEntries ==
    /\ \A k \in DOMAIN table :
          find_entry_by_external(NT, table[k].external_ip,
                                 table[k].external_port) = table[k]
    /\ \A k \in DOMAIN table_external :
          find_entry(NT, table_external[k].internal_ip,
                     table_external[k].internal_port) = table_external[k]
    /\ Cardinality(DOMAIN table) = Cardinality(DOMAIN table_external)

\* C2: no two entries present in the table have the same
\* (external_ip, external_port).
C2_ExternalEndpointsUnique ==
    \A k1, k2 \in DOMAIN table :
        k1 # k2 => <<table[k1].external_ip, table[k1].external_port>>
                   # <<table[k2].external_ip, table[k2].external_port>>

\* C3: every entry of the table has its external_ip and its external_port
\* within the pool.
C3_EntriesWithinPool ==
    \A e \in Entries \cup ExternalEntries :
        /\ InIpPool(e.external_ip)
        /\ external_port_low_end <= e.external_port
        /\ e.external_port <= external_port_high_end

\* C4: an add_entry that moves the round-robin cursor past
\* external_ip_high_end fails: it returns no entry.
C4_AllocationPastPoolFails ==
    [][ ( /\ handled'.kind = "add_entry"
          /\ InIpPool(last_external_ip)
          /\ ~InIpPool(last_external_ip') )
        => handled'.ret = NoneEntry ]_vars

\* C5: find_entry(ip, port) returns an entry only if the entry's internal ip
\* and port are ip and port, find_entry_by_external likewise, and add_entry
\* for an internal (ip, port) no entry of the table has does not fail as a
\* duplicate.
C5_LookupsReturnTheKeyedEntry ==
    /\ \A c \in Clients :
          LET e == find_entry(NT, c[1], c[2])
          IN  e # NoneEntry => e.internal_ip = c[1] /\ e.internal_port = c[2]
    /\ \A ip \in SuggestedIps, port \in SuggestedPorts :
          LET e == find_entry_by_external(NT, ip, port)
          IN  e # NoneEntry => e.external_ip = ip /\ e.external_port = port
    /\ \A c \in Clients :
          (\A e \in Entries : <<e.internal_ip, e.internal_port>> # c)
          => add_entry(NT, c[1], c[2], 1, NoneIp, NonePort, UDP).exc = "none"

(***************************************************************************)
(* Claims about the controller and the forwarder.                          *)
(***************************************************************************)
\* what a message sent to the forwarder is: the command and table of a
\* flow-mod, the output port of a packet-out
Kind(m) ==
    IF m.type = "flow_mod" THEN <<m.command, m.table_id>>
    ELSE <<"packet_out", m.out_port>>

Kinds(msgs) == [i \in 1 .. Len(msgs) |-> Kind(msgs[i])]

\* the messages a step has added at the end of the channel
Batch == SubSeq(chan', Len(chan) + 1, Len(chan'))

\* a step has only added messages at the end of the channel
Appended ==
    /\ Len(chan') >= Len(chan)
    /\ SubSeq(chan', 1, Len(chan)) = chan

\* the kinds of the messages of a request handled to its end
BatchKinds(branch, mapped) ==
    IF branch = "mapping_params" THEN << <<"packet_out", AccessPort>> >>
    ELSE IF branch = "create"
    THEN << <<"ADD", nat_internal_to_external>>,
            <<"ADD", nat_external_to_internal>>, <<"packet_out", AccessPort>> >>
    ELSE IF branch = "update"
    THEN << <<"DELETE", nat_internal_to_external>>,
            <<"DELETE", nat_external_to_internal>>,
            <<"ADD", nat_internal_to_external>>,
            <<"ADD", nat_external_to_internal>>, <<"packet_out", AccessPort>> >>
    ELSE IF mapped
    THEN << <<"DELETE", nat_internal_to_external>>,
            <<"DELETE", nat_external_to_internal>>, <<"packet_out", AccessPort>> >>
    ELSE << <<"packet_out", AccessPort>> >>

IsFlowMod(m) == m.type = "flow_mod"

\* no internal (ip, port): a DELETE of nat_external_to_internal carries the
\* external endpoint only
NoTuple == <<>>

\* the internal (ip, port) a flow-mod of a UDP mapping carries: in the match
\* of nat_internal_to_external, in the set-field values of an ADD of
\* nat_external_to_internal
About(m) ==
    IF m.table_id = nat_internal_to_external
    THEN <<m.match.ipv4_src, m.match.udp_src>>
    ELSE IF m.command = "ADD"
    THEN <<m.set_field.ipv4_dst, m.set_field.udp_dst>>
    ELSE NoTuple

\* what the forwarder sees of a flow-mod
Label(m) == <<m.command, m.table_id, About(m)>>

Labels(msgs) == [i \in 1 .. Len(msgs) |-> Label(msgs[i])]

\* the batch of a create, of a refresh and of a removal of the mapping of
\* the internal (ip, port) c
CreateBatch(c) ==
    << <<"ADD", nat_internal_to_external, c>>,
       <<"ADD", nat_external_to_internal, c>> >>

RemoveBatch(c) ==
    << <<"DELETE", nat_internal_to_external, c>>,
       <<"DELETE", nat_external_to_internal, NoTuple>> >>

RefreshBatch(c) == RemoveBatch(c) \o CreateBatch(c)

RECURSIVE MirrorFrom(_, _, _)
\* the batches of the requests accepted[i], accepted[i + 1], ..., one after
\* the other, when the internal (ip, port) tuples of mapped have a mapping:
\* a request with a lifetime creates the mapping of its tuple or, when the
\* tuple has one, refreshes it; a request with lifetime 0 removes it; the
\* expiry of the tuple's entry of nat_internal_to_external leaves the tuple
\* without a mapping
MirrorFrom(accepted, i, mapped) ==
    IF i > Len(accepted) THEN <<>>
    ELSE LET a == accepted[i]
         IN  IF a.kind = "expired"
             THEN MirrorFrom(accepted, i + 1, mapped \ {a.c})
             ELSE IF a.lifetime # 0
             THEN (IF a.c \in mapped THEN RefreshBatch(a.c)
                   ELSE CreateBatch(a.c))
                  \o MirrorFrom(accepted, i + 1, mapped \cup {a.c})
             ELSE (IF a.c \in mapped THEN RemoveBatch(a.c) ELSE <<>>)
                  \o MirrorFrom(accepted, i + 1, mapped \ {a.c})

\* C6: for each internal (ip, port), the flow-mods the forwarder has applied
\* and those still in the channel are the batches of the requests the event
\* loop has handled (two ADDs for a create, two DELETEs then two ADDs for a
\* refresh, two DELETEs for a removal), in the order of the requests and
\* one whole batch after the other.
C6_ForwarderMirrorsAcceptedRequests ==
    Labels(Observed \o SelectSeq(chan, IsFlowMod)) = MirrorFrom(Accepted, 1, {})

\* the entries of a dictionary
EntriesOf(dict) == { dict[k] : k \in DOMAIN dict }

\* an entry is the mapping of an internal (ip, port)
IsMappingOf(e, internal_ip, internal_port) ==
    e.internal_ip = internal_ip /\ e.internal_port = internal_port

\* the step has handled a PCP request that found a mapping and refreshed it
RefreshHandled == handled'.kind = "pcp_request" /\ handled'.branch = "update"

\* C7: refreshing an existing mapping sends exactly four flow-mods, in the
\* order DELETE internal-to-external, DELETE external-to-internal, ADD
\* internal-to-external, ADD external-to-internal; the ADDs have the match and
\* the set-field values of the mapping's entries and idle_timeout equal to the
\* new lifetime.
C7_RefreshDeletesThenAdds ==
    [][ RefreshHandled =>
        LET old == find_entry(NT, handled'.req.pcp_client_ip,
                              handled'.req.internal_port)
            flow_mods == SelectSeq(Batch, IsFlowMod)
        IN  /\ Appended
            /\ Len(flow_mods) = 4
            /\ Kinds(flow_mods) = << <<"DELETE", nat_internal_to_external>>,
                                     <<"DELETE", nat_external_to_internal>>,
                                     <<"ADD", nat_internal_to_external>>,
                                     <<"ADD", nat_external_to_internal>> >>
            /\ flow_mods[1].match = _get_match_data(old, INTERNAL_TO_EXTERNAL)
            /\ flow_mods[2].match = _get_match_data(old, EXTERNAL_TO_INTERNAL)
            /\ flow_mods[3].match = _get_match_data(old, INTERNAL_TO_EXTERNAL)
            /\ flow_mods[3].set_field
                   = _get_action_set_data(old, INTERNAL_TO_EXTERNAL)
            /\ flow_mods[4].match = _get_match_data(old, EXTERNAL_TO_INTERNAL)
            /\ flow_mods[4].set_field
                   = _get_action_set_data(old, EXTERNAL_TO_INTERNAL)
            /\ flow_mods[3].idle_timeout = handled'.req.lifetime
            /\ flow_mods[4].idle_timeout = handled'.req.lifetime ]_vars

\* the step has handled an IDLE_TIMEOUT flow-removed event of the table
\* nat_internal_to_external
IdleTimeoutHandled ==
    /\ handled'.kind = "flow_removed"
    /\ handled'.msg.reason = "IDLE_TIMEOUT"
    /\ handled'.msg.table_id = nat_internal_to_external

\* the internal ip and port in the match of a flow-removed event
MatchIp(msg) == msg.match[MATCH_FIELD_NAME_MAPS.ip_src[msg.match.eth_type]]
MatchPort(msg) == msg.match[MATCH_FIELD_NAME_MAPS.port_src[msg.match.ip_proto]]

\* C8: handling an IDLE_TIMEOUT flow-removed event of nat_internal_to_external
\* removes the mapping of the internal (ip, port) of the match from both
\* indices, leaves every other mapping unchanged in both indices, and sends
\* nothing to the forwarder.
C8_IdleTimeoutRemovesOnlyThatMapping ==
    [][ IdleTimeoutHandled =>
        LET ip == MatchIp(handled'.msg)
            port == MatchPort(handled'.msg)
        IN  /\ \A e \in EntriesOf(table') \cup EntriesOf(table_external') :
                  ~IsMappingOf(e, ip, port)
            /\ \A e \in EntriesOf(table) :
                  ~IsMappingOf(e, ip, port) => e \in EntriesOf(table')
            /\ \A e \in EntriesOf(table_external) :
                  ~IsMappingOf(e, ip, port) => e \in EntriesOf(table_external')
            /\ EntriesOf(table') \subseteq EntriesOf(table)
            /\ EntriesOf(table_external') \subseteq EntriesOf(table_external)
            /\ chan' = chan ]_vars

\* a flow entry translates for an internal (ip, port)
IsFlowOf(f, internal_ip, internal_port) ==
    LET ip_name == IF f.table_id = nat_internal_to_external
                   THEN MATCH_FIELD_NAME_MAPS.ip_src[f.match.eth_type]
                   ELSE MATCH_FIELD_NAME_MAPS.ip_dst[f.match.eth_type]
        port_name == IF f.table_id = nat_internal_to_external
                     THEN MATCH_FIELD_NAME_MAPS.port_src[f.match.ip_proto]
                     ELSE MATCH_FIELD_NAME_MAPS.port_dst[f.match.ip_proto]
        side == IF f.table_id = nat_internal_to_external THEN f.match
                ELSE f.set_field
    IN  side[ip_name] = internal_ip /\ side[port_name] = internal_port

\* C9: once the controller has handled the IDLE_TIMEOUT flow-removed event of
\* a mapping's internal-to-external entry, the forwarder holds neither of the
\* two flow entries of that mapping.
C9_NoFlowLeftAfterIdleTimeout ==
    [][ IdleTimeoutHandled =>
        \A f \in flows' :
            ~IsFlowOf(f, MatchIp(handled'.msg), MatchPort(handled'.msg)) ]_vars

\* the step has handled a MAP request with a lifetime above 0 and no
\* suggestion, from an internal (ip, port) that had no mapping
PlainCreateHandled ==
    /\ handled'.kind = "pcp_request"
    /\ handled'.req.opcode = MAP
    /\ handled'.req.lifetime > 0
    /\ handled'.req.external_ip = ZeroIp
    /\ handled'.req.external_port = 0
    /\ \A e \in EntriesOf(table) :
          ~IsMappingOf(e, handled'.req.pcp_client_ip, handled'.req.internal_port)

\* C10: a MAP request with lifetime L > 0 and no suggestion, from an internal
\* (ip, port) without a mapping, creates exactly one NAT entry with the
\* allocator's next endpoint, sends exactly two flow ADDs (internal-to-external
\* then external-to-internal) with idle_timeout equal to the mapping's lifetime
\* and the flag that asks for flow-removed, and then exactly one response out
\* of the access port with SUCCESS and the mapping's lifetime, external_ip and
\* external_port.
C10_CreateWithoutSuggestion ==
    [][ PlainCreateHandled =>
        LET key == _get_key(handled'.req.pcp_client_ip,
                            handled'.req.internal_port)
            next == _allocate_ip_and_port(NT, NoneIp)
        IN  /\ key \notin DOMAIN table
            /\ DOMAIN table' = DOMAIN table \cup {key}
            /\ \A k \in DOMAIN table : table'[k] = table[k]
            /\ IsMappingOf(table'[key], handled'.req.pcp_client_ip,
                           handled'.req.internal_port)
            /\ table'[key].external_ip = next.ip
            /\ table'[key].external_port = next.port
            /\ table'[key].lifetime = handled'.req.lifetime
            /\ Appended
            /\ Kinds(Batch) = BatchKinds("create", FALSE)
            /\ \A i \in 1 .. 2 :
                  /\ Batch[i].idle_timeout = table'[key].lifetime
                  /\ Batch[i].flags = "SEND_FLOW_REM"
            /\ Batch[3].payload.result_code = SUCCESS
            /\ Batch[3].payload.lifetime = table'[key].lifetime
            /\ Batch[3].payload.external_ip = table'[key].external_ip
            /\ Batch[3].payload.external_port = table'[key].external_port ]_vars

\* the step has handled a MAP or PEER request that parsed with SUCCESS
OpcodeRequestHandled ==
    /\ handled'.kind = "pcp_request"
    /\ handled'.req.opcode \in {MAP, PEER}

\* the internal (ip, port) of the request the step has handled had a mapping
RequestWasMapped ==
    \E e \in EntriesOf(table) :
        IsMappingOf(e, handled'.req.pcp_client_ip, handled'.req.internal_port)

\* the mapping the internal (ip, port) of the handled request had
OldMapping ==
    CHOOSE e \in EntriesOf(table) :
        IsMappingOf(e, handled'.req.pcp_client_ip, handled'.req.internal_port)

\* the last message of the batch is a response out of the access port
BatchEndsWithResponse ==
    /\ Appended
    /\ Batch # <<>>
    /\ Kind(Batch[Len(Batch)]) = <<"packet_out", AccessPort>>

\* the step has handled a MAP or PEER request with a lifetime above 0 for an
\* internal (ip, port) that had a mapping
MappedRefreshHandled ==
    /\ OpcodeRequestHandled
    /\ handled'.req.lifetime > 0
    /\ RequestWasMapped

\* C11: a MAP or PEER request with a lifetime above 0 for an internal
\* (ip, port) that has a mapping leaves the mapping's external ip and port as
\* they were, whatever the request suggests, sets its lifetime to the clamped
\* lifetime of the request, takes nothing from the allocator, and is answered
\* with the new lifetime and the mapping's external ip and port.
C11_RefreshKeepsEndpoint ==
    [][ MappedRefreshHandled =>
        LET lifetime == IF handled'.req.opcode = MAP
                        THEN IF handled'.req.lifetime
                                  < default_pcp_map_assigned_lifetime_seconds
                             THEN default_pcp_map_assigned_lifetime_seconds
                             ELSE handled'.req.lifetime
                        ELSE IF handled'.req.lifetime
                                  < default_pcp_peer_assigned_lifetime_seconds
                             THEN default_pcp_peer_assigned_lifetime_seconds
                             ELSE handled'.req.lifetime
        IN  /\ \E e \in EntriesOf(table') :
                  /\ IsMappingOf(e, handled'.req.pcp_client_ip,
                                 handled'.req.internal_port)
                  /\ e.external_ip = OldMapping.external_ip
                  /\ e.external_port = OldMapping.external_port
                  /\ e.lifetime = lifetime
            /\ allocated' = allocated
            /\ last_external_ip' = last_external_ip
            /\ BatchEndsWithResponse
            /\ Batch[Len(Batch)].payload.lifetime = lifetime
            /\ Batch[Len(Batch)].payload.external_ip = OldMapping.external_ip
            /\ Batch[Len(Batch)].payload.external_port
                   = OldMapping.external_port ]_vars

\* the step has handled a MAP or PEER request with lifetime 0
RemovalHandled ==
    /\ OpcodeRequestHandled
    /\ handled'.req.lifetime = 0

\* the response that ends the batch has SUCCESS, lifetime 0 and the external
\* ip and port of the request
AnsweredRemoval ==
    /\ BatchEndsWithResponse
    /\ Batch[Len(Batch)].payload.result_code = SUCCESS
    /\ Batch[Len(Batch)].payload.lifetime = 0
    /\ Batch[Len(Batch)].payload.external_ip = handled'.req.external_ip
    /\ Batch[Len(Batch)].payload.external_port = handled'.req.external_port

\* C12: a MAP or PEER request with lifetime 0 for a mapped internal (ip, port)
\* sends the two flow DELETEs of the mapping, removes the NAT entry and is
\* answered with SUCCESS, lifetime 0 and the external ip and port of the
\* request; when the internal (ip, port) has no mapping, no flow-mod is sent,
\* the NAT table is unchanged and the answer is the same.
C12_RemovalByClient ==
    [][ RemovalHandled =>
        IF RequestWasMapped
        THEN /\ AnsweredRemoval
             /\ Kinds(Batch) = << <<"DELETE", nat_internal_to_external>>,
                                  <<"DELETE", nat_external_to_internal>>,
                                  <<"packet_out", AccessPort>> >>
             /\ Batch[1].match.ipv4_src = handled'.req.pcp_client_ip
             /\ Batch[1].match.udp_src = handled'.req.internal_port
             /\ Batch[2].match.ipv4_dst = OldMapping.external_ip
             /\ Batch[2].match.udp_dst = OldMapping.external_port
             /\ \A e \in EntriesOf(table') \cup EntriesOf(table_external') :
                   ~IsMappingOf(e, handled'.req.pcp_client_ip,
                                handled'.req.internal_port)
        ELSE /\ AnsweredRemoval
             /\ Len(Batch) = 1
             /\ table' = table
             /\ table_external' = table_external ]_vars

\* the step has handled a PCP packet for which the parser returned nothing or
\* a parse_result other than SUCCESS
UnparsedHandled == handled'.kind = "pcp_unparsed"

\* C13: when the parser returns nothing, or a message whose parse_result is
\* not SUCCESS, handling the packet-in sends nothing to the forwarder, neither
\* a response nor a flow-mod, and leaves the NAT table and the allocator as
\* they were.
C13_UnparsedPacketDropped ==
    [][ UnparsedHandled =>
        /\ chan' = chan
        /\ table' = table
        /\ table_external' = table_external
        /\ allocated' = allocated
        /\ last_external_ip' = last_external_ip ]_vars

\* a MAP request of an unsupported version, with all the fields of a mapping
\* and an internal (ip, port) without a mapping, has been handled while the
\* NAT table held a mapping and messages were on their way to the forwarder
C13_Witness ==
    /\ handled.kind = "pcp_unparsed"
    /\ handled.parsed # NoneMessage
    /\ handled.parsed.parse_result = UNSUPP_VERSION
    /\ MappingParamFields \subseteq DOMAIN handled.parsed.fields
    /\ find_entry(NT, handled.parsed.fields.pcp_client_ip,
                  handled.parsed.fields.internal_port) = NoneEntry
    /\ table # EmptyDict
    /\ chan # <<>>

\* the step has handled a PCP packet for which the parser returned a message
\* with a parse_result other than SUCCESS
ParseFailureHandled ==
    /\ handled'.kind = "pcp_unparsed"
    /\ handled'.parsed # NoneMessage

\* C14: for every PCP request that the parser does not drop and whose
\* parse_result is not SUCCESS, the server sends the client a response with
\* version 2, the opcode of the request, result_code equal to parse_result and
\* the client's ip.
C14_ParseFailureAnswered ==
    [][ ParseFailureHandled =>
        /\ BatchEndsWithResponse
        /\ Batch[Len(Batch)].payload.version = 2
        /\ Batch[Len(Batch)].payload.message_type = RESPONSE
        /\ Batch[Len(Batch)].payload.opcode = handled'.parsed.fields.opcode
        /\ Batch[Len(Batch)].payload.result_code = handled'.parsed.parse_result
        /\ Batch[Len(Batch)].payload.pcp_client_ip
               = handled'.parsed.fields.pcp_client_ip ]_vars

\* the step has handled a request that parsed with SUCCESS
ParsedRequestHandled == handled'.kind = "pcp_request"

IsPacketOut(m) == m.type = "packet_out"

\* C15: every request that parses with SUCCESS, of opcode ANNOUNCE, MAP or
\* PEER, is handled to its end without an exception and produces exactly one
\* response out of the access port, with version 2, message type RESPONSE,
\* result_code SUCCESS and the opcode of the request; an ANNOUNCE request
\* changes nothing in the NAT table or the allocator.
C15_ParsedRequestAnswered ==
    [][ ParsedRequestHandled =>
        /\ handled'.exc = "none"
        /\ BatchEndsWithResponse
        /\ Len(SelectSeq(Batch, IsPacketOut)) = 1
        /\ Batch[Len(Batch)].payload.version = 2
        /\ Batch[Len(Batch)].payload.message_type = RESPONSE
        /\ Batch[Len(Batch)].payload.result_code = SUCCESS
        /\ Batch[Len(Batch)].payload.opcode = handled'.req.opcode
        /\ handled'.req.opcode = ANNOUNCE =>
              /\ table' = table
              /\ table_external' = table_external
              /\ allocated' = allocated
              /\ last_external_ip' = last_external_ip ]_vars

\* a flow-removed event is the IDLE_TIMEOUT of the internal-to-external entry
\* of the internal (ip, port) c
IsIdleTimeoutOf(msg, c) ==
    /\ msg.reason = "IDLE_TIMEOUT"
    /\ msg.table_id = nat_internal_to_external
    /\ MatchIp(msg) = c[1]
    /\ MatchPort(msg) = c[2]

\* the forwarder has emitted such an event and the controller has not handled
\* it yet
IdleTimeoutPending(c) ==
    \E i \in 1 .. Len(events) : IsIdleTimeoutOf(events[i], c)

\* the controller has just handled such an event and neither index holds a
\* mapping of c
IdleTimeoutReflected(c) ==
    /\ handled.kind = "flow_removed"
    /\ IsIdleTimeoutOf(handled.msg, c)
    /\ \A e \in EntriesOf(table) \cup EntriesOf(table_external) :
          ~IsMappingOf(e, c[1], c[2])

\* C16: when events are handled fairly, every IDLE_TIMEOUT flow-removed event
\* that the forwarder has emitted for the internal-to-external entry of a
\* mapping is eventually handled by the controller, and after the handling the
\* NAT table holds no mapping of that internal (ip, port).
C16_IdleTimeoutEventuallyReflected ==
    \A c \in Clients : IdleTimeoutPending(c) ~> IdleTimeoutReflected(c)

\* an IDLE_TIMEOUT event of a mapping has been handled while another mapping
\* stays in the NAT table
C16_Witness ==
    /\ \E c \in Clients : IdleTimeoutReflected(c)
    /\ handled.exc = "none"
    /\ table # EmptyDict

\* the step has handled a flow-removed event whose reason is not IDLE_TIMEOUT
\* or whose table is not nat_internal_to_external
OtherFlowRemovedHandled ==
    /\ handled'.kind = "flow_removed"
    /\ \/ handled'.msg.reason # "IDLE_TIMEOUT"
       \/ handled'.msg.table_id # nat_internal_to_external

\* C17: a flow-removed event whose reason is not IDLE_TIMEOUT (such as the
\* DELETEs the controller sends for a refresh or a removal by the client), or
\* whose table is not nat_internal_to_external, leaves the NAT table and the
\* allocator as they were and causes no message to the forwarder.
C17_OtherFlowRemovedIgnored ==
    [][ OtherFlowRemovedHandled =>
        /\ table' = table
        /\ table_external' = table_external
        /\ allocated' = allocated
        /\ last_external_ip' = last_external_ip
        /\ chan' = chan ]_vars

\* the flow-removed event of a DELETE sent for a refresh has been handled
\* while the NAT table holds the mapping of the internal (ip, port) of the
\* event's match
C17_Witness ==
    /\ handled.kind = "flow_removed"
    /\ handled.msg.reason = "DELETE"
    /\ handled.msg.table_id = nat_internal_to_external
    /\ \E e \in EntriesOf(table) :
          IsMappingOf(e, MatchIp(handled.msg), MatchPort(handled.msg))

(***************************************************************************)
(* Claims about single operations of the NatTable.                         *)
(***************************************************************************)
\* the internal (ip, port) of the NatTable operation of the step had an entry
\* in the primary index
OperandWasPresent ==
    \E e \in EntriesOf(table) :
        IsMappingOf(e, handled'.internal_ip, handled'.internal_port)

\* C18: add_entry for an internal (ip, port) that is already in the table
\* fails with ValueError and leaves both indices exactly as they were: the
\* existing entry keeps its external endpoint and its lifetime, and no new
\* external key appears.
C18_DuplicateAddRejected ==
    [][ (handled'.kind = "add_entry" /\ OperandWasPresent) =>
        /\ handled'.exc = "ValueError"
        /\ table' = table
        /\ table_external' = table_external ]_vars

\* add_entry has been called for an internal (ip, port) whose entry is in the
\* table, with a lifetime that is not the one of the call
C18_Witness ==
    /\ handled.kind = "add_entry"
    /\ handled.exc = "ValueError"
    /\ \E e \in EntriesOf(table) :
          /\ IsMappingOf(e, handled.internal_ip, handled.internal_port)
          /\ e.lifetime = MaxLifetime

\* the NatTable after the step
NTAfter ==
    [table |-> table', table_external |-> table_external',
     allocated |-> allocated', last |-> last_external_ip']

\* the entry the internal (ip, port) of the NatTable operation had
OldEntry ==
    CHOOSE e \in EntriesOf(table) :
        IsMappingOf(e, handled'.internal_ip, handled'.internal_port)

\* the entries of the other internal (ip, port)s are in both indices what
\* they were
OtherEntriesUnchanged(internal_ip, internal_port) ==
    /\ \A e \in EntriesOf(table) \cup EntriesOf(table') :
          ~IsMappingOf(e, internal_ip, internal_port)
              => (e \in EntriesOf(table) <=> e \in EntriesOf(table'))
    /\ \A e \in EntriesOf(table_external) \cup EntriesOf(table_external') :
          ~IsMappingOf(e, internal_ip, internal_port)
              => (e \in EntriesOf(table_external)
                     <=> e \in EntriesOf(table_external'))

\* C19: update_entry_lifetime(ip, port, L) for an (ip, port) that has an entry
\* returns an entry with lifetime L and every other field of the old entry;
\* afterwards find_entry(ip, port) and find_entry_by_external of the old
\* external (ip, port) both return that entry, and every other entry of the
\* table is unchanged.
C19_UpdateChangesOnlyLifetime ==
    [][ (handled'.kind = "update_entry_lifetime" /\ OperandWasPresent) =>
        /\ handled'.exc = "none"
        /\ handled'.ret = [OldEntry EXCEPT !.lifetime = handled'.lifetime]
        /\ find_entry(NTAfter, handled'.internal_ip, handled'.internal_port)
               = handled'.ret
        /\ find_entry_by_external(NTAfter, OldEntry.external_ip,
                                  OldEntry.external_port) = handled'.ret
        /\ OtherEntriesUnchanged(handled'.internal_ip,
                                 handled'.internal_port) ]_vars

\* an entry has the external (ip, port) of the remove_entry_by_external of
\* the step
HasOperandEndpoint(e) ==
    /\ e.external_ip = handled'.external_ip
    /\ e.external_port = handled'.external_port

\* the entry the shadow index held for that external (ip, port)
OldExternalEntry == CHOOSE e \in EntriesOf(table_external) : HasOperandEndpoint(e)

\* C20: after remove_entry(ip, port) or remove_entry_by_external(eip, eport)
\* of an entry that is present, find_entry of its internal (ip, port) and
\* find_entry_by_external of its external (ip, port) both return nothing and
\* every other entry is unchanged; removing what is absent changes nothing
\* and raises nothing.
C20_RemoveClearsBothIndices ==
    [][ /\ handled'.kind = "remove_entry" =>
            IF OperandWasPresent
            THEN /\ handled'.exc = "none"
                 /\ find_entry(NTAfter, handled'.internal_ip,
                               handled'.internal_port) = NoneEntry
                 /\ find_entry_by_external(NTAfter, OldEntry.external_ip,
                                           OldEntry.external_port) = NoneEntry
                 /\ OtherEntriesUnchanged(handled'.internal_ip,
                                          handled'.internal_port)
            ELSE /\ handled'.exc = "none"
                 /\ table' = table
                 /\ table_external' = table_external
        /\ handled'.kind = "remove_entry_by_external" =>
            IF \E e \in EntriesOf(table_external) : HasOperandEndpoint(e)
            THEN /\ handled'.exc = "none"
                 /\ find_entry_by_external(NTAfter, handled'.external_ip,
                                           handled'.external_port) = NoneEntry
                 /\ find_entry(NTAfter, OldExternalEntry.internal_ip,
                               OldExternalEntry.internal_port) = NoneEntry
                 /\ OtherEntriesUnchanged(OldExternalEntry.internal_ip,
                                          OldExternalEntry.internal_port)
            ELSE /\ handled'.exc = "none"
                 /\ table' = table
                 /\ table_external' = table_external ]_vars

(***************************************************************************)
(* Claims about single operations of the NatHandler.                       *)
(***************************************************************************)
\* the step leaves the NAT table, the allocator and the channel as they were
NothingChangedOrSent ==
    /\ table' = table
    /\ table_external' = table_external
    /\ allocated' = allocated
    /\ last_external_ip' = last_external_ip
    /\ chan' = chan

\* C21: create_mapping for an internal (ip, port) that has a mapping raises
\* MappingError, and update_mapping_lifetime for an internal (ip, port) that
\* has no mapping raises MappingError; in both cases the NAT table and the
\* allocator are as before and no flow-mod is sent.
C21_MappingErrors ==
    [][ /\ (handled'.kind = "create_mapping" /\ OperandWasPresent) =>
              (handled'.exc = "MappingError" /\ NothingChangedOrSent)
        /\ (handled'.kind = "update_mapping_lifetime" /\ ~OperandWasPresent) =>
              (handled'.exc = "MappingError" /\ NothingChangedOrSent) ]_vars

(***************************************************************************)
(* Claims about the allocator.                                             *)
(***************************************************************************)
\* the endpoint of the n-th allocation of a round robin over the ports of an
\* address and then the addresses, from external_ip_low_end
RoundRobinIp(n) == IpStr(AddWords(external_ip_low_words, n \div PortPoolSize))
RoundRobinPort(n) == external_port_low_end + (n % PortPoolSize)

\* C22: from an empty table and without suggested endpoints, the n-th
\* add_entry (n = 0, 1, ...) gets external_ip_low_end with the port
\* external_port_low_end + n while that port is at most
\* external_port_high_end; the allocation after the last port of an address
\* gets the next address with external_port_low_end, and the allocations
\* after it continue on that address.
C22_RoundRobinAllocation ==
    [][ (handled'.kind = "add_entry" /\ handled'.exc = "none") =>
        /\ handled'.ret.external_ip = RoundRobinIp(served)
        /\ handled'.ret.external_port = RoundRobinPort(served) ]_vars

\* the call after the one that got the first port of the second address has
\* got its second port
C22_Witness ==
    /\ handled.kind = "add_entry" /\ handled.exc = "none"
    /\ served = PortPoolSize + 2
    /\ handled.ret.external_ip = IpStr(IncWords(external_ip_low_words))
    /\ handled.ret.external_port = external_port_low_end + 1
    /\ \E e \in EntriesOf(table) :
          /\ e.external_ip = external_ip_low_end
          /\ e.external_port = external_port_high_end

\* the suggestion of the add_entry of the step is nonzero, within the pool's
\* range of addresses, compared as addresses, and of ports, and no entry has
\* it
SuggestionUsable ==
    /\ handled'.external_ip # NoneIp
    /\ ParseIp(handled'.external_ip) # <<0, 0, 0, 0>>
    /\ WordsLeq(external_ip_low_words, ParseIp(handled'.external_ip))
    /\ WordsLeq(ParseIp(handled'.external_ip), configured_ip_high_words)
    /\ handled'.external_port >= external_port_low_end
    /\ handled'.external_port <= external_port_high_end
    /\ \A e \in EntriesOf(table) \cup EntriesOf(table_external) :
          ~( /\ e.external_ip = handled'.external_ip
             /\ e.external_port = handled'.external_port )

\* the internal (ip, port) of the add_entry of the step is not a duplicate
NotDuplicate ==
    _get_key(handled'.internal_ip, handled'.internal_port) \notin DOMAIN table

\* C23: add_entry with a suggested (external_ip, external_port) that is
\* nonzero, within the pool's range of addresses (compared as addresses) and
\* of ports, and not assigned, creates the entry with exactly that endpoint;
\* a suggestion that is zero, out of range or assigned does not make
\* add_entry fail.
C23_SuggestionUsedVerbatim ==
    [][ (handled'.kind = "add_entry_configured" /\ NotDuplicate) =>
        /\ handled'.exc = "none"
        /\ SuggestionUsable =>
              /\ handled'.ret.external_ip = handled'.external_ip
              /\ handled'.ret.external_port = handled'.external_port ]_vars
(***************************************************************************)
(* Claims about the features event.                                        *)
(***************************************************************************)
\* a base flow entry as the forwarder holds it
BaseEntry(table_id, match, instructions, priority) ==
    [table_id |-> table_id, match |-> match, instructions |-> instructions,
     idle_timeout |-> 0, priority |-> priority, flags |-> "NONE"]

PuntToController == <<[type |-> "APPLY_ACTIONS",
                       actions |-> <<[type |-> "OUTPUT", port |-> -3]>>]>>

OutputTo(port) == <<[type |-> "APPLY_ACTIONS",
                     actions |-> <<[type |-> "OUTPUT", port |-> port]>>]>>

GotoTable(table_id) == <<[type |-> "GOTO_TABLE", table_id |-> table_id]>>

\* the ARP-punt entries of both ports
ArpPuntEntries ==
    { BaseEntry(0, [in_port |-> port, eth_type |-> 2054], PuntToController, 2) :
        port \in {1, 2} }

\* the PCP request and response punt entries, with the table-miss entry of
\* their table
PcpPuntEntries ==
    { BaseEntry(0, [in_port |-> 1, eth_type |-> 2048, ip_proto |-> 17,
                    udp_dst |-> 5351], PuntToController, 3),
      BaseEntry(0, [in_port |-> -3, eth_type |-> 2048, ip_proto |-> 17,
                    udp_src |-> 5351], OutputTo(1), 3),
      BaseEntry(0, MatchAll, GotoTable(1), 0) }

\* the classifier entries of nat_port_match
ClassifierEntries ==
    { BaseEntry(1, [in_port |-> 2], GotoTable(3), 0),
      BaseEntry(1, MatchAll, GotoTable(2), 0) }

\* the two entries of packet_forwarding
PacketForwardingEntries ==
    { BaseEntry(4, [in_port |-> 1], OutputTo(2), 32768),
      BaseEntry(4, [in_port |-> 2], OutputTo(1), 32768) }

BaseFlowEntries ==
    ArpPuntEntries \cup PcpPuntEntries \cup ClassifierEntries
    \cup PacketForwardingEntries

\* the place of a message in the order of the features event
Stage(m) ==
    IF m.command = "DELETE" THEN 0
    ELSE IF FlowOf(m) \in ArpPuntEntries THEN 1
    ELSE IF FlowOf(m) \in PcpPuntEntries THEN 2
    ELSE IF FlowOf(m) \in ClassifierEntries THEN 3
    ELSE IF FlowOf(m) \in PacketForwardingEntries THEN 4
    ELSE 5

\* a flow entry of a mapping or of an ARP exchange
IsLaterEntry(f) ==
    \/ f.table_id \in {nat_internal_to_external, nat_external_to_internal}
    \/ f.table_id = 0 /\ "eth_src" \in DOMAIN f.match

\* C24: the messages of a features event start with the flow-mod that
\* deletes with an empty match, which leaves the forwarder without any flow
\* entry, and the ARP-punt entries of both ports, the PCP punt entries, the
\* classifier entries of nat_port_match and the two packet_forwarding entries
\* follow it in this order; once the forwarder has applied everything sent to
\* it, it holds the same base flow entries after the second features event as
\* after the first
C24_FeaturesEventInstallsBaseEntries ==
    /\ handled.kind = "forwarder" /\ "applied" \in DOMAIN handled =>
          flows = {}
    /\ handled.kind = "switch_features" =>
          /\ Len(chan) > 1
          /\ chan[1].type = "flow_mod" /\ chan[1].command = "DELETE"
          /\ DOMAIN chan[1].match = {}
          /\ \A i \in 2 .. Len(chan) :
                chan[i].type = "flow_mod" /\ chan[i].command = "ADD"
          /\ \A i, j \in 1 .. Len(chan) :
                i < j => Stage(chan[i]) <= Stage(chan[j])
          /\ { FlowOf(chan[i]) : i \in 2 .. Len(chan) } = BaseFlowEntries
    /\ connections >= 1 /\ chan = <<>> =>
          /\ BaseFlowEntries \subseteq flows
          /\ \A f \in flows \ BaseFlowEntries : IsLaterEntry(f)

\* C25: when the forwarder has connected again, the features event leaves the
\* NAT table without any mapping, the allocator at external_ip_low_end with
\* no port handed out, and the ARP table empty
C25_ReconnectDropsNatState ==
    handled.kind = "switch_features" =>
        /\ DOMAIN table = {}
        /\ DOMAIN table_external = {}
        /\ DOMAIN allocated = {}
        /\ last_external_ip = external_ip_low_end
        /\ DOMAIN arp_table = {}

\* the forwarder connects again while the controller holds a mapping, an
\* allocator that has moved to the next address and an ARP table entry
C25_Witness ==
    /\ handled.kind = "switch_features"
    /\ connections = 2
    /\ DOMAIN handled.nat.table # {}
    /\ DOMAIN handled.nat.table_external # {}
    /\ handled.nat.last # external_ip_low_end
    /\ DOMAIN handled.arp # {}

(***************************************************************************)
(* Claims about the lifetime of a mapping.                                 *)
(***************************************************************************)
\* the minimum lifetime the configuration sets for the opcode
ConfiguredMinimum(opcode) ==
    IF opcode = MAP THEN app_config.default_pcp_map_assigned_lifetime_seconds
    ELSE app_config.default_pcp_peer_assigned_lifetime_seconds

\* max(L, minimum) for the request the step has handled
AssignedLifetime ==
    IF handled'.req.lifetime >= ConfiguredMinimum(handled'.req.opcode)
    THEN handled'.req.lifetime
    ELSE ConfiguredMinimum(handled'.req.opcode)

\* the key of the internal (ip, port) of the request the step has handled
RequestKey ==
    _get_key(handled'.req.pcp_client_ip, handled'.req.internal_port)

\* C26: a MAP or PEER request with lifetime L > 0 is handled as a creation
\* or a refresh, and the lifetime of the mapping it has created or refreshed,
\* the idle_timeout of every flow entry installed and the lifetime of the
\* response are max(L, minimum of the opcode); a request with lifetime 0 is
\* handled as a removal, installs nothing and is answered with lifetime 0
C26_LifetimeClampedToMinimum ==
    [][ OpcodeRequestHandled /\ Appended =>
          IF handled'.req.lifetime > 0
          THEN /\ handled'.branch \in {"create", "update"}
               /\ RequestKey \in DOMAIN table' =>
                     table'[RequestKey].lifetime = AssignedLifetime
               /\ \A i \in DOMAIN Batch :
                     IF IsPacketOut(Batch[i])
                     THEN Batch[i].payload.lifetime = AssignedLifetime
                     ELSE Batch[i].command = "ADD"
                             => Batch[i].idle_timeout = AssignedLifetime
               /\ handled'.exc = "none" =>
                     /\ \E i \in DOMAIN Batch : IsPacketOut(Batch[i])
                     /\ Cardinality({ i \in DOMAIN Batch :
                                        /\ ~IsPacketOut(Batch[i])
                                        /\ Batch[i].command = "ADD" }) = 2
                     /\ RequestKey \in DOMAIN table'
          ELSE /\ handled'.branch = "remove"
               /\ \A i \in DOMAIN Batch :
                     IF IsPacketOut(Batch[i])
                     THEN Batch[i].payload.lifetime = 0
                     ELSE Batch[i].command # "ADD" ]_vars

\* a request with a lifetime below the configured minimum of its opcode has
\* created a mapping and has been answered
C26_Witness ==
    /\ handled.kind = "pcp_request"
    /\ handled.branch = "create"
    /\ handled.exc = "none"
    /\ handled.req.lifetime = 1
    /\ handled.req.opcode = PEER
    /\ app_config.default_pcp_peer_assigned_lifetime_seconds = 2
    /\ \E e \in EntriesOf(table) : e.lifetime = 2

(***************************************************************************)
(* Claims about the parser.                                                *)
(***************************************************************************)
\* the parser has returned for the payload of the packet received
ParseHandled == handled.kind = "parse"

\* the R bit of byte 1 marks a response
IsResponseData(data) == data[2] >= 128

\* C27: parse returns nothing for data shorter than 2 bytes, for data whose R
\* bit marks a response and for data shorter than 24 bytes, whatever the
\* version byte is; for every other data it returns a message that has a
\* parse_result
C27_ShortOrResponseDataDropped ==
    ParseHandled =>
        IF \/ Len(handled.data) < 2
           \/ IsResponseData(handled.data)
           \/ Len(handled.data) < 24
        THEN handled.ret = NoneMessage
        ELSE /\ handled.ret # NoneMessage
             /\ "parse_result" \in DOMAIN handled.ret
             /\ handled.ret.parse_result \in 0 .. 13

\* a request of a supported version cut to ten bytes has been dropped
C27_Witness ==
    /\ ParseHandled
    /\ Len(handled.data) = 10
    /\ handled.data[1] = 2
    /\ ~IsResponseData(handled.data)
    /\ handled.ret = NoneMessage

\* C28: for a request of at least 24 bytes whose version byte is not a
\* supported version, parse returns a message with parse_result
\* UNSUPP_VERSION, whatever the rest of the request is
C28_UnsupportedVersionReported ==
    /\ ParseHandled
    /\ Len(handled.data) >= 24
    /\ ~IsResponseData(handled.data)
    /\ handled.data[1] # 2
    => /\ handled.ret # NoneMessage
       /\ handled.ret.parse_result = UNSUPP_VERSION

\* the parser has returned for a MAP request of 24 + 36 bytes or more, of a
\* length the parser accepts
FullMapRequestParsed ==
    /\ ParseHandled
    /\ Len(handled.data) >= 60
    /\ Len(handled.data) % 4 = 0
    /\ Len(handled.data) <= 1100
    /\ handled.data[2] = MAP

\* C29: for a MAP request with a complete 36-byte payload the parse_result is
\* MALFORMED_REQUEST exactly when lifetime != 0 and protocol = 0 and
\* internal_port != 0
C29_ProtocolZeroCheckAsIntended ==
    FullMapRequestParsed =>
        ( handled.ret.parse_result = MALFORMED_REQUEST
          <=> /\ handled.ret.fields.lifetime # 0
              /\ handled.ret.fields.protocol = 0
              /\ handled.ret.fields.internal_port # 0 )

\* a MAP request with lifetime 300, protocol 0 and internal port 1250 has
\* been parsed as malformed
C29_Witness ==
    /\ FullMapRequestParsed
    /\ handled.ret.fields.lifetime = 300
    /\ handled.ret.fields.protocol = 0
    /\ handled.ret.fields.internal_port = 1250
    /\ handled.ret.parse_result = MALFORMED_REQUEST

\* C30: a MAP or PEER request that parses with SUCCESS has an internal port
\* other than 0 or the lifetime 0
C30_SuccessHasInternalPort ==
    /\ ParseHandled
    /\ handled.ret # NoneMessage
    /\ handled.ret.parse_result = SUCCESS
    /\ handled.ret.fields.opcode \in {MAP, PEER}
    => \/ handled.ret.fields.internal_port # 0
       \/ handled.ret.fields.lifetime = 0

(***************************************************************************)
(* Claims about ARP.                                                       *)
(***************************************************************************)
\* the controller has handled an ARP packet with this opcode in this step
ArpHandled(opcode) ==
    handled'.kind = "arp" /\ handled'.header.opcode = opcode

\* the port of the two that is not port
OtherPort(port) == IF port = AccessPort THEN ExternalPort ELSE AccessPort

MacRewriteAdd(in_port, from_mac, to_mac) ==
    [type |-> "flow_mod", command |-> "ADD", table_id |-> 0,
     match |-> [in_port |-> in_port, eth_src |-> from_mac,
                eth_dst |-> datapath_mac_addr],
     instructions |->
        << [type |-> "APPLY_ACTIONS",
            actions |-> << [type |-> "SET_FIELD", field |-> "eth_src",
                            value |-> datapath_mac_addr],
                           [type |-> "SET_FIELD", field |-> "eth_dst",
                            value |-> to_mac] >>],
           [type |-> "GOTO_TABLE", table_id |-> nat_port_match] >>,
     idle_timeout |-> 0,
     priority |-> default_mac_modifying_flow_entries_priority,
     flags |-> "NONE"]

C39_EveryRequesterGetsRewriting ==
    [][ ArpHandled("ARP_REPLY") =>
          \A r \in arp_replied :
             r.dst_ip = handled'.header.src_ip =>
                /\ \E i \in 1 .. Len(Batch) :
                      Batch[i] = MacRewriteAdd(r.in_port, r.src_mac,
                                                  handled'.header.src_mac)
                /\ \E i \in 1 .. Len(Batch) :
                      Batch[i] = MacRewriteAdd(handled'.in_port,
                                                  handled'.header.src_mac,
                                                  r.src_mac) ]_vars

(***************************************************************************)
(* Claims about FlowTableHelper.                                           *)
(***************************************************************************)
\* the IDs of the pipeline in construction order
PipelineIds ==
    [i \in 1 .. Len(handled.flow_table_names) |->
        handled.starting_index + i - 1]

\* next_table_id has returned or raised for a table name that has an ID or
\* for a table ID
NextTableIdHandled ==
    /\ handled.kind = "next_table_id"
    /\ \/ handled.table_name_or_id.type = "int"
       \/ handled.table_name_or_id.value \in DOMAIN handled.helper.flow_tables

\* the ID the argument of next_table_id stands for
ArgumentId ==
    IF handled.table_name_or_id.type = "int"
    THEN handled.table_name_or_id.value
    ELSE handled.helper.flow_tables[handled.table_name_or_id.value]

\* C33: next_table_id(x), for x a table name, an alias included, or a table
\* ID, returns the ID that follows the ID of x in the construction order of
\* the pipeline; it raises ValueError when the ID is not in the pipeline and
\* when it is the ID of the last table, given by name or by ID
C33_NextTableIdFollowsConstructionOrder ==
    NextTableIdHandled =>
        IF \E i \in 1 .. Len(PipelineIds) - 1 : PipelineIds[i] = ArgumentId
        THEN /\ handled.ret.exc = "none"
             /\ \E i \in 1 .. Len(PipelineIds) - 1 :
                   /\ PipelineIds[i] = ArgumentId
                   /\ handled.ret.value = PipelineIds[i + 1]
        ELSE handled.ret.exc = "ValueError"

\* the alias arp_forwarding of table 0 has been given to next_table_id of the
\* whole pipeline, which returned 1
C33_Witness ==
    /\ handled.kind = "next_table_id"
    /\ handled.flow_table_names = _FLOW_TABLES
    /\ handled.starting_index = 0
    /\ handled.table_name_or_id = TableName("arp_forwarding")
    /\ "arp_forwarding" \in DOMAIN handled.helper.flow_tables
    /\ handled.helper.flow_tables["arp_forwarding"] = 0
    /\ handled.ret = [exc |-> "none", value |-> 1]

(***************************************************************************)
(* Claims about the MAC address of the datapath.                           *)
(***************************************************************************)
\* the low 48 bits of the sixteen-digit id as six two-digit hexadecimal
\* octets with colons between them, most significant first
ColonSeparatedOctets(id) ==
    [i \in 1 .. 17 |->
        IF i % 3 = 0 THEN 58
        ELSE LET digit == id[4 + 2 * ((i - 1) \div 3) + (i % 3)]
             IN  IF digit < 10 THEN 48 + digit ELSE 87 + digit]

\* C40: get_mac_addr_from_datapath returns, for every datapath ID, the low 48
\* bits of the ID as six colon-separated two-digit hexadecimal octets, most
\* significant first, whatever the upper 16 bits are
C40_MacAddrIsLow48Bits ==
    handled.kind = "mac_addr" =>
        handled.ret = ColonSeparatedOctets(handled.id)

(***************************************************************************)
(* Claims about notifications in flight.                                   *)
(***************************************************************************)
\* the forwarder holds the flow entries of both directions for an internal
\* (ip, port)
BothFlowsInstalled(internal_ip, internal_port) ==
    /\ \E f \in flows : /\ f.table_id = nat_internal_to_external
                         /\ IsFlowOf(f, internal_ip, internal_port)
    /\ \E f \in flows : /\ f.table_id = nat_external_to_internal
                         /\ IsFlowOf(f, internal_ip, internal_port)

\* the NAT table holds a mapping of an internal (ip, port)
Mapped(dict, internal_ip, internal_port) ==
    \E e \in EntriesOf(dict) : IsMappingOf(e, internal_ip, internal_port)

\* C34: an IDLE_TIMEOUT flow-removed notification that the forwarder emitted
\* for an earlier installation of an internal (ip, port) does not remove the
\* mapping whose flow entries the controller has installed since: when the
\* notification is handled while the forwarder holds both flow entries of
\* the mapping, the NAT table still contains the mapping afterwards
C34_StaleIdleTimeoutKeepsMapping ==
    [][ IdleTimeoutHandled =>
          LET ip == MatchIp(handled'.msg)
              port == MatchPort(handled'.msg)
          IN  BothFlowsInstalled(ip, port) /\ Mapped(table, ip, port)
                 => Mapped(table', ip, port) ]_vars

(***************************************************************************)
(* Claims about the protocol of a mapping.                                 *)
(***************************************************************************)
\* the step has sent the flow-mod that adds, to table table_id, the flow
\* entry of an internal (ip, port)
AddSent(table_id, internal_ip, internal_port) ==
    \E i \in 1 .. Len(Batch) :
       /\ Batch[i].type = "flow_mod"
       /\ Batch[i].command = "ADD"
       /\ Batch[i].table_id = table_id
       /\ IsFlowOf(Batch[i], internal_ip, internal_port)

\* C35: once create_mapping or update_mapping_lifetime has returned or
\* raised for a MAP or PEER request, the entry the NAT table holds for the
\* internal (ip, port) of the request has the protocol TCP or UDP, and the
\* flow-mods that add its entries of both directions have been sent
C35_MappedEntryHasFlowEntries ==
    [][ /\ handled'.kind = "pcp_request"
        /\ handled'.branch \in {"create", "update"}
        => \A e \in EntriesOf(table') :
              IsMappingOf(e, handled'.req.pcp_client_ip,
                          handled'.req.internal_port) =>
                 /\ e.protocol \in {TCP, UDP}
                 /\ AddSent(nat_internal_to_external, e.internal_ip,
                            e.internal_port)
                 /\ AddSent(nat_external_to_internal, e.internal_ip,
                            e.internal_port) ]_vars

\* the step has sent the flow-mod that adds, to table table_id, the flow
\* entry of protocol for an internal (ip, port)
AddSentFor(table_id, internal_ip, internal_port, protocol) ==
    \E i \in 1 .. Len(Batch) :
       /\ Batch[i].type = "flow_mod"
       /\ Batch[i].command = "ADD"
       /\ Batch[i].table_id = table_id
       /\ Batch[i].match.ip_proto = protocol
       /\ IsFlowOf(Batch[i], internal_ip, internal_port)

\* the step has answered a MAP or PEER request of a lifetime above 0 with a
\* SUCCESS response
MappingResponseSent ==
    /\ handled'.kind = "pcp_request"
    /\ handled'.req.opcode \in {MAP, PEER}
    /\ handled'.req.lifetime > 0
    /\ Len(Batch) > 0
    /\ Batch[Len(Batch)].type = "packet_out"
    /\ Batch[Len(Batch)].payload.result_code = SUCCESS

\* C36: the protocol, internal port, external endpoint and lifetime of a
\* SUCCESS response to a MAP or PEER request with a lifetime above 0 are
\* those of the mapping the NAT table holds for the client, whose flow
\* entries have been sent to the forwarder, also when the request names
\* another protocol than the mapping it hits
C36_ResponseDescribesMapping ==
    [][ MappingResponseSent =>
          LET response == Batch[Len(Batch)].payload
          IN  \E e \in EntriesOf(table') :
                 /\ e.internal_ip = response.pcp_client_ip
                 /\ e.internal_port = response.internal_port
                 /\ e.protocol = response.protocol
                 /\ e.external_ip = response.external_ip
                 /\ e.external_port = response.external_port
                 /\ e.lifetime = response.lifetime
                 /\ AddSentFor(nat_internal_to_external, e.internal_ip,
                               e.internal_port, response.protocol)
                 /\ AddSentFor(nat_external_to_internal, e.internal_ip,
                               e.internal_port, response.protocol) ]_vars

(***************************************************************************)
(* The allocator under add_entry calls that fail.                          *)
(***************************************************************************)
\* the step is an add_entry call that raised the duplicate ValueError
DuplicateAddStep ==
    /\ handled'.kind = "add_entry"
    /\ handled'.exc = "ValueError"

\* C37: an add_entry call that fails as a duplicate leaves the allocator
\* as it was: _last_external_ip and the last allocated port of every
\* external IP are the same after the call as before it
C37_FailedAddConsumesNothing ==
    [][DuplicateAddStep =>
          /\ allocated' = allocated
          /\ last_external_ip' = last_external_ip]_vars

(***************************************************************************)
(* Automatic allocation.                                                   *)
(***************************************************************************)
\* endpoint a comes before endpoint b in (external_ip, external_port)
\* order, the addresses compared as numbers
EndpointLess(a, b) ==
    \/ a[1] # b[1] /\ WordsLeq(ParseIp(a[1]), ParseIp(b[1]))
    \/ a[1] = b[1] /\ a[2] < b[2]

\* C38: when no add_entry carries a usable suggested external ip or port,
\* the endpoints the successful calls return are strictly increasing in
\* (external_ip, external_port) order, also across removals, and the
\* endpoint a call returns was not assigned to an entry when it was called
C38_AutomaticAllocationsIncrease ==
    /\ \A i, j \in DOMAIN Handed :
          i < j => EndpointLess(Handed[i], Handed[j])
    /\ handled.kind = "add_entry" => ~handled.assigned

\* three endpoints were handed out on two addresses, the last by the call
\* just made, and one handed out earlier has been removed from the table
C38_Witness ==
    /\ handled.kind = "add_entry"
    /\ handled.exc = "none"
    /\ Len(Handed) >= 3
    /\ Handed[1][1] # Handed[Len(Handed)][1]
    /\ \E i \in DOMAIN Handed :
          find_entry_by_external(NT, Handed[i][1], Handed[i][2]) = NoneEntry

====
